---- MODULE Spec2Model ----
(***************************************************************************)
(* Model of the Sudoku puzzle engine: the branching undo/redo HistoryTree  *)
(* (classes/History.ts), the constraint checker and the randomized         *)
(* backtracking generator (classes/BoardGenerator.ts, utils/solve.ts),     *)
(* puzzle cutting, the Board session (classes/Board.ts) and the play loop  *)
(* (classes/Sudoku.ts).                                                    *)
(***************************************************************************)
EXTENDS Integers, Sequences, FiniteSets, TLC

\* ------------------------------------------------------------------------
\* Bounds of the model
\* ------------------------------------------------------------------------
\* number of distinct snapshot values handed to addChild
NumValues == 2
\* number of HistoryTree operations performed in one behaviour
MaxOps == 7
\* number of cells written into a grid handed to the constraint checker
MaxPlaced == 2

\* ------------------------------------------------------------------------
\* Program constants
\* ------------------------------------------------------------------------
\* board size: the smallest size of the new-game menu
Size == 4

\* ------------------------------------------------------------------------
\* State
\* ------------------------------------------------------------------------
VARIABLES
    tree,    \* the HistoryTree: [nodes, root, currentNode]
    uuid,    \* number of identifiers handed out by randomUUID()
    ret,     \* value returned by the last HistoryTree operation
    saved,   \* the last Structure produced by the structure getter
    trace,   \* the operations performed so far, with their results
    board,   \* BoardGenerator.board: the grid being generated or checked
    pc,      \* where the generator is: "new", "fill", "call", "loop", "done"
    fill,    \* fillDiagonal: subgrid offset i, shuffled values, cells written
    stack,   \* the frames of BoardGenerator.solve: row, col, candidates left
    result,  \* what generate() returned ("none" before it returns)
    placed,  \* number of cells written into the grid under check
    query,   \* the last constraint-checker query and its answers
    ctor,    \* the last call of the BoardGenerator constructor and its outcome
    puzzle,  \* generatePuzzle / generateCustomPuzzle: the locals of removeCells
    session, \* the Board of the game being played, and what the caller saw
    pool     \* the worker pool of a parallel generate(): promise and workers

histVars == <<tree, uuid, ret, saved, trace>>

genVars == <<board, pc, fill, stack, result, placed, query, pool>>

playVars == <<ctor, puzzle, session>>

vars == <<tree, uuid, ret, saved, trace,
          board, pc, fill, stack, result, placed, query,
          ctor, puzzle, session, pool>>

\* ------------------------------------------------------------------------
\* HistoryTreeNode / HistoryTree
\* ------------------------------------------------------------------------
\* "no node": the null parent, and the null parent id of a Structure
Null == 0

Values == 1..NumValues

\* a node as its constructor leaves it
NewNode(value, id) ==
    [_id |-> id, value |-> value, parent |-> Null,
     children |-> <<>>, activeIndex |-> -1]

\* new HistoryTree(value, id): a root node, which is also the current node
NewTree(value, id) ==
    [nodes |-> <<NewNode(value, id)>>, root |-> 1, currentNode |-> 1]

\* the node the tree is at
Cur(t) == t.nodes[t.currentNode]

\* get current(): the value of the current node
Current(t) == Cur(t).value

\* variant of addChild that overwrites the children list with the new child
NodeAddChildOverwrite(nodes, this, value, id) ==
    LET child == Len(nodes) + 1
    IN Append([nodes EXCEPT ![this].children = <<child>>,
                            ![this].activeIndex = 0],
              [NewNode(value, id) EXCEPT !.parent = this])

\* variant of addChild that puts the new child first in the children list
NodeAddChildFront(nodes, this, value, id) ==
    LET child == Len(nodes) + 1
        pushed == <<child>> \o nodes[this].children
    IN Append([nodes EXCEPT ![this].children = pushed,
                            ![this].activeIndex = Len(pushed) - 1],
              [NewNode(value, id) EXCEPT !.parent = this])

\* variant of addChild that leaves the active index of `this` as it was
NodeAddChildKeepsIndex(nodes, this, value, id) ==
    LET child == Len(nodes) + 1
        pushed == Append(nodes[this].children, child)
    IN Append([nodes EXCEPT ![this].children = pushed],
              [NewNode(value, id) EXCEPT !.parent = this])

\* HistoryTreeNode.addChild(value) on node `this`; the child gets identifier id
NodeAddChild(nodes, this, value, id) ==
    LET child == Len(nodes) + 1
        pushed == Append(nodes[this].children, child)
    IN Append([nodes EXCEPT ![this].children = pushed,
                            ![this].activeIndex = Len(pushed) - 1],
              [NewNode(value, id) EXCEPT !.parent = this])

\* variant of HistoryTree.addChild whose child is not linked to its parent
TreeAddChildNoParent(t, value, id) ==
    LET added == NodeAddChild(t.nodes, t.currentNode, value, id)
    IN [t EXCEPT !.nodes = [added EXCEPT ![Len(added)].parent = Null],
                 !.currentNode = Len(t.nodes) + 1]

\* HistoryTree.addChild(value)
TreeAddChild(t, value, id) ==
    [t EXCEPT !.nodes = NodeAddChild(t.nodes, t.currentNode, value, id),
              !.currentNode = Len(t.nodes) + 1]

\* variant of undo that clears the current node's active index before the
\* root check
TreeUndoResetFirst(t) ==
    IF Cur(t).parent = Null
    THEN [tree |-> [t EXCEPT !.nodes[t.currentNode].activeIndex = -1],
          ret |-> FALSE]
    ELSE [tree |-> [t EXCEPT !.nodes[Cur(t).parent].activeIndex = -1,
                             !.currentNode = Cur(t).parent],
          ret |-> TRUE]

\* variant of undo that pops the undone child off its parent's children
TreeUndoDropChild(t) ==
    IF Cur(t).parent = Null
    THEN [tree |-> t, ret |-> FALSE]
    ELSE [tree |-> [t EXCEPT !.nodes[Cur(t).parent].activeIndex = -1,
                             !.nodes[Cur(t).parent].children =
                                 SubSeq(@, 1, Len(@) - 1),
                             !.currentNode = Cur(t).parent],
          ret |-> TRUE]

\* variant of undo that leaves the parent's active index as it was
TreeUndoKeepsIndex(t) ==
    IF Cur(t).parent = Null
    THEN [tree |-> t, ret |-> FALSE]
    ELSE [tree |-> [t EXCEPT !.currentNode = Cur(t).parent], ret |-> TRUE]

\* HistoryTree.undo(): the tree afterwards, and the value returned
TreeUndo(t) ==
    IF Cur(t).parent = Null
    THEN [tree |-> t, ret |-> FALSE]
    ELSE [tree |-> [t EXCEPT !.nodes[Cur(t).parent].activeIndex = -1,
                             !.currentNode = Cur(t).parent],
          ret |-> TRUE]

\* variant of redo that takes the first child instead of the last
TreeRedoFirstChild(t) ==
    IF Len(Cur(t).children) = 0
    THEN [tree |-> t, ret |-> FALSE]
    ELSE [tree |-> [t EXCEPT !.nodes[t.currentNode].activeIndex = 0,
                             !.currentNode = Cur(t).children[1]],
          ret |-> TRUE]

\* variant of redo that moves to the last child without marking it active
TreeRedoKeepsIndex(t) ==
    IF Len(Cur(t).children) = 0
    THEN [tree |-> t, ret |-> FALSE]
    ELSE [tree |-> [t EXCEPT !.currentNode =
                                  Cur(t).children[Len(Cur(t).children)]],
          ret |-> TRUE]

\* HistoryTree.redo(): the tree afterwards, and the value returned
TreeRedo(t) ==
    IF Len(Cur(t).children) = 0
    THEN [tree |-> t, ret |-> FALSE]
    ELSE LET index == Len(Cur(t).children) - 1
         IN [tree |-> [t EXCEPT !.nodes[t.currentNode].activeIndex = index,
                                !.currentNode = Cur(t).children[index + 1]],
             ret |-> TRUE]

\* get structure() of node n: the recursive Structure object
RECURSIVE NodeStructure(_, _)
NodeStructure(nodes, n) ==
    [_id |-> nodes[n]._id,
     value |-> nodes[n].value,
     parent |-> IF nodes[n].parent = Null THEN Null
                ELSE nodes[nodes[n].parent]._id,
     activeChild |-> nodes[n].activeIndex,
     children |-> [i \in 1..Len(nodes[n].children) |->
                      NodeStructure(nodes, nodes[n].children[i])]]

\* variant of the structure getter that serializes from the current node
TreeStructureFromCurrent(t) == NodeStructure(t.nodes, t.currentNode)

\* HistoryTree.structure: the structure of the root
TreeStructure(t) == NodeStructure(t.nodes, t.root)

\* HistoryTreeNode.fromStructure and addChildrenFromStructure; nodes are
\* allocated in the order the constructor calls happen
RECURSIVE NodeFromStructure(_, _)
RECURSIVE AddChildrenFromStructure(_, _, _, _)
NodeFromStructure(nodes, structure) ==
    LET node == Len(nodes) + 1
        made == Append(nodes, NewNode(structure.value, structure._id))
        filled == AddChildrenFromStructure(made, node, structure.children, 1)
    IN [filled EXCEPT ![node].activeIndex = structure.activeChild]

AddChildrenFromStructure(nodes, this, children, i) ==
    IF i > Len(children) THEN nodes
    ELSE LET node == Len(nodes) + 1
             made == NodeFromStructure(nodes, children[i])
             linked == [made EXCEPT ![node].parent = this,
                                    ![this].children = Append(@, node)]
         IN AddChildrenFromStructure(linked, this, children, i + 1)

\* variant of fromStructure that does not restore the root's active index
TreeFromStructureNoRootActive(structure) ==
    LET t == NewTree(structure.value, structure._id)
    IN [t EXCEPT !.nodes = AddChildrenFromStructure(t.nodes, t.root,
                                                    structure.children, 1),
                 !.currentNode = t.root]

\* variant of fromStructure that rebuilds the root without its children
TreeFromStructureRootOnly(structure) ==
    LET t == NewTree(structure.value, structure._id)
    IN [t EXCEPT !.nodes[t.root].activeIndex = structure.activeChild]

\* variant of fromStructure that leaves current at the node built last
TreeFromStructureAtLast(structure) ==
    LET t == NewTree(structure.value, structure._id)
        withActive == [t.nodes EXCEPT ![t.root].activeIndex = structure.activeChild]
        built == AddChildrenFromStructure(withActive, t.root,
                                          structure.children, 1)
    IN [t EXCEPT !.nodes = built, !.currentNode = Len(built)]

\* HistoryTree.fromStructure(structure)
TreeFromStructure(structure) ==
    LET t == NewTree(structure.value, structure._id)
        withActive == [t.nodes EXCEPT ![t.root].activeIndex = structure.activeChild]
    IN [t EXCEPT !.nodes = AddChildrenFromStructure(withActive, t.root,
                                                    structure.children, 1),
                 !.currentNode = t.root]

\* ------------------------------------------------------------------------
\* Constraint checker (BoardGenerator static helpers, utils/solve.ts)
\* ------------------------------------------------------------------------
\* Math.sqrt(size)
SubgridSize == CHOOSE q \in 1..Size : q * q = Size

Idx == 0..(Size - 1)

\* Array.from(Array(size), () => Array(size).fill(0))
EmptyBoard == [r \in Idx |-> [c \in Idx |-> 0]]

\* Array.from({ length: n }, (_, i) => i + 1)
OneTo(n) == [i \in 1..n |-> i]

\* values.indexOf(v), 0-based, -1 when absent
IndexOf(values, v) ==
    IF \E i \in 1..Len(values) : values[i] = v
    THEN (CHOOSE i \in 1..Len(values) :
             values[i] = v /\ \A j \in 1..(i - 1) : values[j] # v) - 1
    ELSE -1

\* values.splice(index, 1); a start of -1 counts from the end of the array
Splice(values, index) ==
    LET at == IF index < 0 THEN Len(values) + index ELSE index
    IN IF at < 0 \/ at >= Len(values) THEN values
       ELSE [i \in 1..(Len(values) - 1) |->
                IF i <= at THEN values[i] ELSE values[i + 1]]

\* the cells of the subgrid that contains (row, col)
SubgridCells(row, col) ==
    LET subgridRow == row - (row % SubgridSize)
        subgridCol == col - (col % SubgridSize)
    IN (subgridRow..(subgridRow + SubgridSize - 1))
           \X (subgridCol..(subgridCol + SubgridSize - 1))

\* variant of isValid without the column comparison
IsValidNoColumn(b, row, col, value) ==
    /\ \A i \in Idx : b[row][i] # value
    /\ \A cell \in SubgridCells(row, col) : b[cell[1]][cell[2]] # value

\* static isValid(board, row, col, value)
IsValid(b, row, col, value) ==
    /\ \A i \in Idx : b[row][i] # value /\ b[i][col] # value
    /\ \A cell \in SubgridCells(row, col) : b[cell[1]][cell[2]] # value

\* the loop of the static getValidValues: `for (const value of values)`
\* reads values[at] while at < values.length, and the body splices the
\* array it iterates over
RECURSIVE ValidValuesLoop(_, _, _, _, _)
ValidValuesLoop(b, row, col, values, at) ==
    IF at >= Len(values) THEN values
    ELSE LET value == values[at + 1]
         IN IF ~IsValid(b, row, col, value)
            THEN ValidValuesLoop(b, row, col,
                                 Splice(values, IndexOf(values, value)), at + 1)
            ELSE ValidValuesLoop(b, row, col, values, at + 1)

\* variant of the candidates that loses the last one
StaticGetValidValuesDropsLast(b, row, col) ==
    LET values == ValidValuesLoop(b, row, col, OneTo(Size), 0)
    IN SubSeq(values, 1, Len(values) - 1)

\* static getValidValues(board, row, col)
StaticGetValidValues(b, row, col) == ValidValuesLoop(b, row, col, OneTo(Size), 0)

\* `if (v !== 0) { index = values.indexOf(v); if (index !== -1) splice }`
Exclude(values, v) ==
    IF v # 0 /\ IndexOf(values, v) # -1
    THEN Splice(values, IndexOf(values, v)) ELSE values

\* the row/column loop of the instance getValidValues, from index i on
RECURSIVE ExcludeLines(_, _, _, _, _)
ExcludeLines(b, row, col, values, i) ==
    IF i >= Size THEN values
    ELSE ExcludeLines(b, row, col,
                      Exclude(Exclude(values, b[row][i]), b[i][col]), i + 1)

\* the subgrid loop of the instance getValidValues, from cell number n on
RECURSIVE ExcludeSubgrid(_, _, _, _, _)
ExcludeSubgrid(b, row, col, values, n) ==
    IF n >= SubgridSize * SubgridSize THEN values
    ELSE LET i == (row \div SubgridSize) * SubgridSize + (n \div SubgridSize)
             j == (col \div SubgridSize) * SubgridSize + (n % SubgridSize)
         IN ExcludeSubgrid(b, row, col, Exclude(values, b[i][j]), n + 1)

\* instance getValidValues(board, row, col)
GetValidValues(b, row, col) ==
    ExcludeSubgrid(b, row, col, ExcludeLines(b, row, col, OneTo(Size), 0), 0)

\* isBoardFilled(board)
IsBoardFilled(b) == \A r \in Idx : \A c \in Idx : b[r][c] # 0

\* static findNextEmpty(board): the first empty cell in row-major order
FindNextEmpty(b) ==
    IF IsBoardFilled(b) THEN [row |-> -1, col |-> -1]
    ELSE LET n == CHOOSE n \in 0..(Size * Size - 1) :
                     /\ b[n \div Size][n % Size] = 0
                     /\ \A m \in 0..(n - 1) : b[m \div Size][m % Size] # 0
         IN [row |-> n \div Size, col |-> n % Size]

\* every order shuffle(array) can leave the array in
Shuffles(array) ==
    {[i \in 1..Len(array) |-> array[f[i]]] :
        f \in {g \in [1..Len(array) -> 1..Len(array)] :
                  \A x \in 1..Len(array) : \A y \in 1..Len(array) :
                      g[x] = g[y] => x = y}}

\* ------------------------------------------------------------------------
\* BoardGenerator.generate(): fillDiagonal, then solve
\* ------------------------------------------------------------------------
NoQuery == [asked |-> FALSE]

\* no parallel generation has been started
NoPool ==
    [promise |-> "none", value |-> [kind |-> "none", from |-> 0],
     workers |-> <<>>]

GenInit ==
    /\ board = EmptyBoard
    /\ pc = "new"
    /\ fill = [i |-> 0, values |-> <<>>, n |-> 0]
    /\ stack = <<>>
    /\ result = "none"
    /\ placed = 0
    /\ query = NoQuery
    /\ pool = NoPool

\* generate() is called on the generator the constructor made
Generate ==
    /\ pc = "new"
    /\ pc' = "fill"
    /\ UNCHANGED <<board, fill, stack, result, placed, query, pool>>
    /\ UNCHANGED histVars
    /\ UNCHANGED playVars

\* fillDiagonal, top of the loop over the diagonal subgrids: shuffle 1..size
FillShuffle ==
    /\ pc = "fill"
    /\ fill.values = <<>>
    /\ \E values \in Shuffles(OneTo(Size)) : fill' = [fill EXCEPT !.values = values]
    /\ UNCHANGED <<board, pc, stack, result, placed, query, pool>>
    /\ UNCHANGED histVars
    /\ UNCHANGED playVars

\* variant of the fillDiagonal assignment that reads values[j + k]
FillWriteBadIndex ==
    /\ pc = "fill"
    /\ fill.values # <<>>
    /\ LET j == fill.n \div SubgridSize
           k == fill.n % SubgridSize
           lastOfSubgrid == fill.n + 1 = SubgridSize * SubgridSize
       IN /\ board' = [board EXCEPT ![fill.i + j][fill.i + k] =
                                       fill.values[j + k + 1]]
          /\ fill' = IF lastOfSubgrid
                     THEN [i |-> fill.i + SubgridSize, values |-> <<>>, n |-> 0]
                     ELSE [fill EXCEPT !.n = fill.n + 1]
          /\ pc' = IF lastOfSubgrid /\ fill.i + SubgridSize >= Size
                   THEN "call" ELSE "fill"
    /\ UNCHANGED <<stack, result, placed, query, pool>>
    /\ UNCHANGED histVars
    /\ UNCHANGED playVars

\* fillDiagonal, one assignment board[i + j][i + k] = values[j * s + k];
\* after the last subgrid generate() calls solve(board)
FillWrite ==
    /\ pc = "fill"
    /\ fill.values # <<>>
    /\ LET j == fill.n \div SubgridSize
           k == fill.n % SubgridSize
           lastOfSubgrid == fill.n + 1 = SubgridSize * SubgridSize
       IN /\ board' = [board EXCEPT ![fill.i + j][fill.i + k] =
                                       fill.values[j * SubgridSize + k + 1]]
          /\ fill' = IF lastOfSubgrid
                     THEN [i |-> fill.i + SubgridSize, values |-> <<>>, n |-> 0]
                     ELSE [fill EXCEPT !.n = fill.n + 1]
          /\ pc' = IF lastOfSubgrid /\ fill.i + SubgridSize >= Size
                   THEN "call" ELSE "fill"
    /\ UNCHANGED <<stack, result, placed, query, pool>>
    /\ UNCHANGED histVars
    /\ UNCHANGED playVars

\* solve(board) is entered with a full board: it returns true, and so does
\* every caller up to generate()
SolveFilled ==
    /\ pc = "call"
    /\ IsBoardFilled(board)
    /\ pc' = "done"
    /\ result' = "true"
    /\ stack' = <<>>
    /\ UNCHANGED <<board, fill, placed, query, pool>>
    /\ UNCHANGED histVars
    /\ UNCHANGED playVars

\* solve(board) is entered with an empty cell left: find it, compute and
\* shuffle its candidates; `entry` keeps the grid the call was entered with
SolveEnter ==
    /\ pc = "call"
    /\ ~IsBoardFilled(board)
    /\ LET cell == FindNextEmpty(board)
       IN \E candidates \in Shuffles(StaticGetValidValues(board, cell.row, cell.col)) :
             stack' = Append(stack, [row |-> cell.row, col |-> cell.col,
                                     candidates |-> candidates,
                                     entry |-> board])
    /\ pc' = "loop"
    /\ UNCHANGED <<board, fill, result, placed, query, pool>>
    /\ UNCHANGED histVars
    /\ UNCHANGED playVars

Top == stack[Len(stack)]

\* the candidate loop: `if (!isValid(board, row, col, value)) continue`
SolveSkip ==
    /\ pc = "loop"
    /\ Top.candidates # <<>>
    /\ ~IsValid(board, Top.row, Top.col, Head(Top.candidates))
    /\ stack' = [stack EXCEPT ![Len(stack)].candidates = Tail(@)]
    /\ UNCHANGED <<board, pc, fill, result, placed, query, pool>>
    /\ UNCHANGED histVars
    /\ UNCHANGED playVars

\* the candidate loop: board[row][col] = value, then the recursive call
SolveTry ==
    /\ pc = "loop"
    /\ Top.candidates # <<>>
    /\ IsValid(board, Top.row, Top.col, Head(Top.candidates))
    /\ board' = [board EXCEPT ![Top.row][Top.col] = Head(Top.candidates)]
    /\ stack' = [stack EXCEPT ![Len(stack)].candidates = Tail(@)]
    /\ pc' = "call"
    /\ UNCHANGED <<fill, result, placed, query, pool>>
    /\ UNCHANGED histVars
    /\ UNCHANGED playVars

\* variant of the return of false in which the caller leaves the value it
\* had written in the cell
SolveFailNoReset ==
    /\ pc = "loop"
    /\ Top.candidates = <<>>
    /\ stack' = SubSeq(stack, 1, Len(stack) - 1)
    /\ IF Len(stack) = 1
       THEN /\ pc' = "done"
            /\ result' = "false"
       ELSE UNCHANGED <<pc, result>>
    /\ UNCHANGED <<board, fill, placed, query, pool>>
    /\ UNCHANGED histVars
    /\ UNCHANGED playVars

\* the candidates are exhausted: solve returns false; the caller resets the
\* cell it had written and goes on with its own loop
SolveFail ==
    /\ pc = "loop"
    /\ Top.candidates = <<>>
    /\ stack' = SubSeq(stack, 1, Len(stack) - 1)
    /\ IF Len(stack) = 1
       THEN /\ pc' = "done"
            /\ result' = "false"
            /\ UNCHANGED board
       ELSE /\ board' = [board EXCEPT ![stack[Len(stack) - 1].row]
                                       [stack[Len(stack) - 1].col] = 0]
            /\ UNCHANGED <<pc, result>>
    /\ UNCHANGED <<fill, placed, query, pool>>
    /\ UNCHANGED histVars
    /\ UNCHANGED playVars

\* variant of the answers in which isValid leaves the asked cell out
AnswersOthersOnly(b, row, col) ==
    [asked |-> TRUE, board |-> b, row |-> row, col |-> col,
     isValid |-> [v \in 0..Size |-> IsValid([b EXCEPT ![row][col] = -1], row, col, v)],
     static |-> StaticGetValidValues(b, row, col),
     instance |-> GetValidValues(b, row, col)]

\* what the checker functions answer for cell (row, col) of grid b
Answers(b, row, col) ==
    [asked |-> TRUE, board |-> b, row |-> row, col |-> col,
     isValid |-> [v \in 0..Size |-> IsValid(b, row, col, v)],
     static |-> StaticGetValidValues(b, row, col),
     instance |-> GetValidValues(b, row, col)]

\* the generated grid, as it is or with one cell zeroed, is handed to the
\* constraint checker
AskGenerated ==
    /\ pc = "done"
    /\ result = "true"
    /\ query = NoQuery
    /\ \E row \in Idx : \E col \in Idx : \E zeroed \in BOOLEAN :
          query' = Answers(IF zeroed THEN [board EXCEPT ![row][col] = 0] ELSE board,
                           row, col)
    /\ UNCHANGED <<board, pc, fill, stack, result, placed, pool>>
    /\ UNCHANGED histVars
    /\ UNCHANGED playVars

\* ------------------------------------------------------------------------
\* The constraint checker on arbitrary grids
\* ------------------------------------------------------------------------
CheckInit ==
    /\ board = EmptyBoard
    /\ pc = "check"
    /\ fill = [i |-> 0, values |-> <<>>, n |-> 0]
    /\ stack = <<>>
    /\ result = "none"
    /\ placed = 0
    /\ query = NoQuery
    /\ pool = NoPool

\* any cell of the grid under check is given any content
Place ==
    /\ pc = "check"
    /\ placed < MaxPlaced
    /\ \E row \in Idx : \E col \in Idx : \E v \in (0..Size) \ {board[row][col]} :
          board' = [board EXCEPT ![row][col] = v]
    /\ placed' = placed + 1
    /\ query' = NoQuery
    /\ UNCHANGED <<pc, fill, stack, result, pool>>
    /\ UNCHANGED histVars
    /\ UNCHANGED playVars

\* the checker functions are called on the grid under check
Ask ==
    /\ pc = "check"
    /\ query = NoQuery
    /\ \E row \in Idx : \E col \in Idx : query' = Answers(board, row, col)
    /\ UNCHANGED <<board, pc, fill, stack, result, placed, pool>>
    /\ UNCHANGED histVars
    /\ UNCHANGED playVars


\* ------------------------------------------------------------------------
\* Operations on the history tree
\* ------------------------------------------------------------------------
\* the identifier and value of the current node of t
At(t) == [id |-> Cur(t)._id, value |-> Current(t)]

\* one performed operation: its argument, result, and the current node
\* before (from) and after (to) it
Entry(op, arg, r, before, after) ==
    [op |-> op, arg |-> arg, ret |-> r, from |-> At(before), to |-> At(after)]

HistInit ==
    /\ \E v \in Values : tree = NewTree(v, 1)
    /\ uuid = 1
    /\ ret = TRUE
    /\ saved = TreeStructure(tree)
    /\ trace = <<>>

AddChild ==
    /\ Len(trace) < MaxOps
    /\ \E v \in Values :
          /\ tree' = TreeAddChild(tree, v, uuid + 1)
          /\ trace' = Append(trace, Entry("addChild", v, TRUE, tree, tree'))
    /\ uuid' = uuid + 1
    /\ ret' = TRUE
    /\ UNCHANGED saved
    /\ UNCHANGED genVars
    /\ UNCHANGED playVars

Undo ==
    /\ Len(trace) < MaxOps
    /\ tree' = TreeUndo(tree).tree
    /\ ret' = TreeUndo(tree).ret
    /\ trace' = Append(trace, Entry("undo", 0, ret', tree, tree'))
    /\ UNCHANGED <<uuid, saved>>
    /\ UNCHANGED genVars
    /\ UNCHANGED playVars

Redo ==
    /\ Len(trace) < MaxOps
    /\ tree' = TreeRedo(tree).tree
    /\ ret' = TreeRedo(tree).ret
    /\ trace' = Append(trace, Entry("redo", 0, ret', tree, tree'))
    /\ UNCHANGED <<uuid, saved>>
    /\ UNCHANGED genVars
    /\ UNCHANGED playVars

\* structure is read and a tree is rebuilt from it (writeGame, readFolder)
Deserialize ==
    /\ Len(trace) < MaxOps
    /\ saved' = TreeStructure(tree)
    /\ tree' = TreeFromStructure(saved')
    /\ trace' = Append(trace, Entry("fromStructure", 0, TRUE, tree, tree'))
    /\ ret' = TRUE
    /\ UNCHANGED uuid
    /\ UNCHANGED genVars
    /\ UNCHANGED playVars

\* the history tree while the generator or the checker is observed
HistIdle ==
    /\ tree = NewTree(1, 1)
    /\ uuid = 1
    /\ ret = TRUE
    /\ saved = TreeStructure(tree)
    /\ trace = <<>>

\* no constructor call observed, no puzzle being cut, no game being played
NoCtor == [called |-> FALSE]

NoPuzzle == [mode |-> "none"]

NoSession == [open |-> FALSE]

PlayIdle ==
    /\ ctor = NoCtor
    /\ puzzle = NoPuzzle
    /\ session = NoSession

Init == HistInit /\ GenInit /\ PlayIdle

Next == AddChild \/ Undo \/ Redo \/ Deserialize

\* the history tree under addChild / undo / redo / fromStructure
Spec == Init /\ [][Next]_vars

InitGen == HistIdle /\ GenInit /\ PlayIdle

NextGen ==
    \/ Generate \/ FillShuffle \/ FillWrite
    \/ SolveFilled \/ SolveEnter \/ SolveSkip \/ SolveTry \/ SolveFail
    \/ AskGenerated

\* one run of generate() on a fresh generator, then checker queries
SpecGen == InitGen /\ [][NextGen]_vars

InitCheck == HistIdle /\ CheckInit /\ PlayIdle

NextCheck == Place \/ Ask

\* the constraint checker on grids written cell by cell
SpecCheck == InitCheck /\ [][NextCheck]_vars

\* ------------------------------------------------------------------------
\* BoardGenerator: construction
\* ------------------------------------------------------------------------
\* largest size handed to the constructor
MaxSize == 100

\* variant of the constructor test that accepts every even size
IsIntegerSqrtEven(size) == size >= 0 /\ size % 2 = 0

\* Number.isInteger(Math.sqrt(size)): Math.sqrt of a negative number is NaN
IsIntegerSqrt(size) == size >= 0 /\ \E q \in 0..size : q * q = size

\* new BoardGenerator(size): throws, or holds a size x size grid of zeros
NewBoardGenerator(size) ==
    IF ~IsIntegerSqrt(size)
    THEN [called |-> TRUE, size |-> size, error |-> "Invalid size"]
    ELSE [called |-> TRUE, size |-> size, error |-> "none",
          board |-> [r \in 0..(size - 1) |-> [c \in 0..(size - 1) |-> 0]]]

Construct ==
    /\ ~ctor.called
    /\ \E size \in (-1)..MaxSize : ctor' = NewBoardGenerator(size)
    /\ UNCHANGED <<puzzle, session>>
    /\ UNCHANGED histVars
    /\ UNCHANGED genVars

InitNew == HistIdle /\ GenInit /\ PlayIdle

NextNew == Construct

\* one call of the BoardGenerator constructor
SpecNew == InitNew /\ [][NextNew]_vars

\* ------------------------------------------------------------------------
\* BoardGenerator: cutting a puzzle out of a solved grid
\* ------------------------------------------------------------------------
\* number of equally spaced values k / RandomSteps that Math.random() takes
\* in getBlanks
RandomSteps == 4

Difficulties == {"Easy", "Medium", "Hard", "Extreme", "Impossible"}

\* the tables of getBlanks, in hundredths
MaxValues ==
    [Easy |-> 45, Medium |-> 55, Hard |-> 65, Extreme |-> 75, Impossible |-> 85]

MinValues ==
    [Easy |-> 40, Medium |-> 50, Hard |-> 60, Extreme |-> 70, Impossible |-> 80]

\* getBlanks(level) with Math.random() = k / RandomSteps:
\* floor(length * length * (random * (max - min) + max))
GetBlanks(length, level, k) ==
    (length * length * (k * (MaxValues[level] - MinValues[level])
                        + MaxValues[level] * RandomSteps))
        \div (100 * RandomSteps)

\* a grid generate() can return: every row, column and subgrid holds 1..Size
SolvedExample ==
    [r \in Idx |-> [c \in Idx |->
        (((r % SubgridSize) * SubgridSize + (r \div SubgridSize) + c) % Size) + 1]]

\* generate() has returned true and left its solved grid in this.board
PuzzleInit ==
    /\ board = SolvedExample
    /\ pc = "solved"
    /\ fill = [i |-> 0, values |-> <<>>, n |-> 0]
    /\ stack = <<>>
    /\ result = "true"
    /\ placed = 0
    /\ query = NoQuery
    /\ pool = NoPool

\* generatePuzzle(difficulty): getBlanks, then removeCells starts
GeneratePuzzle ==
    /\ pc = "solved"
    /\ \E level \in Difficulties : \E k \in 0..(RandomSteps - 1) :
          puzzle' = [mode |-> "difficulty", level |-> level,
                     count |-> GetBlanks(Size, level, k), removedCount |-> 0,
                     solved |-> board]
    /\ pc' = "removing"
    /\ UNCHANGED <<board, fill, stack, result, placed, query, pool>>
    /\ UNCHANGED <<ctor, session>>
    /\ UNCHANGED histVars

\* the counts handed to generateCustomPuzzle: the two smallest and the two
\* largest the new-game prompt accepts (1 .. board.length * board.length)
CustomCounts == {1, 2, Size * Size - 1, Size * Size}

\* generateCustomPuzzle(count)
GenerateCustomPuzzle ==
    /\ pc = "solved"
    /\ \E count \in CustomCounts :
          puzzle' = [mode |-> "custom", level |-> "custom",
                     count |-> count, removedCount |-> 0, solved |-> board]
    /\ pc' = "removing"
    /\ UNCHANGED <<board, fill, stack, result, placed, query, pool>>
    /\ UNCHANGED <<ctor, session>>
    /\ UNCHANGED histVars

\* variant of the loop body that writes the counter instead of 0
RemoveHitWritesCount ==
    /\ pc = "removing"
    /\ puzzle.removedCount < puzzle.count
    /\ \E row \in Idx : \E col \in Idx :
          /\ board[row][col] # 0
          /\ board' = [board EXCEPT ![row][col] = puzzle.removedCount]
    /\ puzzle' = [puzzle EXCEPT !.removedCount = @ + 1]
    /\ UNCHANGED <<pc, fill, stack, result, placed, query, pool>>
    /\ UNCHANGED <<ctor, session>>
    /\ UNCHANGED histVars

\* removeCells, one iteration that drew a non-zero cell
RemoveHit ==
    /\ pc = "removing"
    /\ puzzle.removedCount < puzzle.count
    /\ \E row \in Idx : \E col \in Idx :
          /\ board[row][col] # 0
          /\ board' = [board EXCEPT ![row][col] = 0]
    /\ puzzle' = [puzzle EXCEPT !.removedCount = @ + 1]
    /\ UNCHANGED <<pc, fill, stack, result, placed, query, pool>>
    /\ UNCHANGED <<ctor, session>>
    /\ UNCHANGED histVars

\* variant of the loop body that counts a cell that is already 0
RemoveMissCounts ==
    /\ pc = "removing"
    /\ puzzle.removedCount < puzzle.count
    /\ \E row \in Idx : \E col \in Idx : board[row][col] = 0
    /\ puzzle' = [puzzle EXCEPT !.removedCount = @ + 1]
    /\ UNCHANGED <<board, pc, fill, stack, result, placed, query, pool>>
    /\ UNCHANGED <<ctor, session>>
    /\ UNCHANGED histVars

\* removeCells, one iteration that drew a cell that is already 0
RemoveMiss ==
    /\ pc = "removing"
    /\ puzzle.removedCount < puzzle.count
    /\ \E row \in Idx : \E col \in Idx : board[row][col] = 0
    /\ UNCHANGED <<board, pc, fill, stack, result, placed, query, pool>>
    /\ UNCHANGED playVars
    /\ UNCHANGED histVars

\* removeCells leaves its loop; the caller returns this.board
RemoveReturn ==
    /\ pc = "removing"
    /\ ~(puzzle.removedCount < puzzle.count)
    /\ pc' = "puzzle"
    /\ UNCHANGED <<board, fill, stack, result, placed, query, pool>>
    /\ UNCHANGED playVars
    /\ UNCHANGED histVars

InitPuzzle == HistIdle /\ PuzzleInit /\ PlayIdle

NextPuzzle ==
    \/ GeneratePuzzle \/ GenerateCustomPuzzle
    \/ RemoveHit \/ RemoveMiss \/ RemoveReturn

\* one call of generatePuzzle or generateCustomPuzzle on a solved grid
SpecPuzzle == InitPuzzle /\ [][NextPuzzle]_vars

NextCustom == GenerateCustomPuzzle \/ RemoveHit \/ RemoveMiss \/ RemoveReturn

\* one call of generateCustomPuzzle; the call keeps running, and
\* Math.random() is fair: an iteration that draws a non-zero cell cannot be
\* postponed forever
SpecCustom ==
    /\ InitPuzzle
    /\ [][NextCustom]_vars
    /\ WF_vars(GenerateCustomPuzzle)
    /\ WF_vars(RemoveHit)
    /\ WF_vars(RemoveReturn)

\* ------------------------------------------------------------------------
\* Board: the game session around the history tree of row strings
\* ------------------------------------------------------------------------
\* number of calls made on one Board and its generator
MaxCalls == 2

\* the sizes of the new-game menu
BoardSizes == {4, 9, 16, 25}

\* the characters of a row string; a string is the sequence of its characters
DigitChars == <<"0", "1", "2", "3", "4", "5", "6", "7", "8", "9">>

\* an array hole, left by an assignment beyond the end of a row
Hole == -1

\* String(n) as Array.prototype.join applies it: decimal digits, and the
\* empty string for a hole
RECURSIVE NumberToString(_)
NumberToString(n) ==
    IF n = Hole THEN <<>>
    ELSE IF n < 10 THEN <<DigitChars[n + 1]>>
    ELSE NumberToString(n \div 10) \o <<DigitChars[(n % 10) + 1]>>

\* row.join('')
RECURSIVE Join(_)
Join(row) ==
    IF row = <<>> THEN <<>> ELSE NumberToString(Head(row)) \o Join(Tail(row))

\* the digit each character stands for
DigitValue == [ch \in {DigitChars[k] : k \in 1..10} |->
                   CHOOSE d \in 0..9 : DigitChars[d + 1] = ch]

\* parseInt(n) of one character of a row string
ParseInt(ch) == DigitValue[ch]

\* board.map((row) => row.join(''))
Serialize(grid) == [i \in 1..Len(grid) |-> Join(grid[i])]

\* `${row}`.split('').map((n) => parseInt(n)): one cell per character
ParseRow(str) == [j \in 1..Len(str) |-> ParseInt(str[j])]

\* get currentBoard(): the snapshot of the current node, parsed row by row
CurrentBoard(t) == [i \in 1..Len(Current(t)) |-> ParseRow(Current(t)[i])]

\* row[j] = num on a JavaScript array: a negative index sets a property that
\* is no element, an index past the end lengthens the array and leaves holes
SetCell(row, j, num) ==
    IF j < 0 THEN row
    ELSE IF j < Len(row) THEN [row EXCEPT ![j + 1] = num]
    ELSE row \o [k \in 1..(j - Len(row)) |-> Hole] \o <<num>>

\* a solved n x n grid, as rows: what generate() can leave in this.board
SolvedRows(n) ==
    LET sub == CHOOSE q \in 0..n : q * q = n
    IN [i \in 1..n |-> [j \in 1..n |->
           ((((i - 1) % sub) * sub + ((i - 1) \div sub) + (j - 1)) % n) + 1]]

\* the puzzle cut out of it: the first cell is removed
PuzzleRows(n) == [SolvedRows(n) EXCEPT ![1][1] = 0]

\* variant of the constructor that keeps the array it is given as initialBoard
NewBoardShared(grid) ==
    [open |-> TRUE,
     size |-> Len(grid),
     arrays |-> [puzzle |-> grid, initial |-> grid, worker |-> <<>>],
     generatorBoard |-> "puzzle",
     initialBoard |-> "puzzle",
     solvedAt |-> 0,
     clock |-> 1,
     over |-> FALSE,
     error |-> "none",
     last |-> [op |-> "new", row |-> 0, col |-> 0, value |-> 0],
     handed |-> grid,
     ideal |-> grid,
     pure |-> TRUE,
     calls |-> 0,
     shownOf |-> <<>>,
     shown |-> <<>>]

\* new Board(grid, boardGenerator, difficulty): the arrays that exist (the
\* one passed in, which is the generator's this.board, and the deep copy made
\* by JSON.parse(JSON.stringify(grid))), the array each field refers to,
\* solvedAt (0: null), the result of the last call, and what an observer
\* recorded: the grid handed over and the grid the moves made so far describe
NewBoard(grid) ==
    [open |-> TRUE,
     size |-> Len(grid),
     arrays |-> [puzzle |-> grid, initial |-> grid, worker |-> <<>>],
     generatorBoard |-> "puzzle",
     initialBoard |-> "initial",
     solvedAt |-> 0,
     clock |-> 1,
     over |-> FALSE,
     error |-> "none",
     last |-> [op |-> "new", row |-> 0, col |-> 0, value |-> 0],
     handed |-> grid,
     ideal |-> grid,
     pure |-> TRUE,
     calls |-> 0,
     shownOf |-> <<>>,
     shown |-> <<>>]

\* Board.initialBoard, read through its reference
InitialBoard(s) == s.arrays[s.initialBoard]

\* variant of move that appends to the root instead of the current node
BoardMoveAtRoot(t, i, j, num, id) ==
    LET b == CurrentBoard(t)
    IN IF i < 0 \/ i >= Len(b)
       THEN [error |-> "TypeError", tree |-> t]
       ELSE [error |-> "none",
             tree |-> [t EXCEPT
                 !.nodes = NodeAddChild(t.nodes, t.root,
                     Serialize([b EXCEPT ![i + 1] = SetCell(@, j, num)]), id),
                 !.currentNode = Len(t.nodes) + 1]]

\* Board.move(i, j, num): board[i] is undefined for a row index outside the
\* grid and the assignment board[i][j] = num then throws a TypeError
BoardMove(t, i, j, num, id) ==
    LET b == CurrentBoard(t)
    IN IF i < 0 \/ i >= Len(b)
       THEN [error |-> "TypeError", tree |-> t]
       ELSE [error |-> "none",
             tree |-> TreeAddChild(t,
                 Serialize([b EXCEPT ![i + 1] = SetCell(@, j, num)]), id)]

\* the arguments handed to move on an n x n board: indices on both sides of
\* both ends of the range, the two ends of 1 .. n and a value above them
RowInputs(n) == {0, n}

ColInputs(n) == {-1, 0, n - 1, n}

ValueInputs(n) == {1, n, n + 1}

\* new HistoryTree(board.map(...)), new Board(puzzle, boardGenerator, ...)
BoardInit ==
    /\ \E n \in BoardSizes :
          /\ session = NewBoard(PuzzleRows(n))
          /\ tree = NewTree(Serialize(PuzzleRows(n)), 1)
    /\ uuid = 1
    /\ ret = TRUE
    /\ saved = TreeStructure(tree)
    /\ trace = <<>>
    /\ ctor = NoCtor
    /\ puzzle = NoPuzzle

Move ==
    /\ session.calls < MaxCalls
    /\ \E i \in RowInputs(session.size) : \E j \in ColInputs(session.size) :
       \E num \in ValueInputs(session.size) :
          LET r == BoardMove(tree, i, j, num, uuid + 1)
              ok == r.error = "none"
          IN /\ tree' = r.tree
             /\ uuid' = IF ok THEN uuid + 1 ELSE uuid
             /\ session' = [session EXCEPT
                   !.error = r.error,
                   !.last = [op |-> "move", row |-> i, col |-> j, value |-> num],
                   !.ideal = IF ok
                             THEN [@ EXCEPT ![i + 1] = SetCell(@, j, num)]
                             ELSE @,
                   !.pure = @ /\ ok /\ j \in 0..(session.size - 1)
                              /\ num \in 1..session.size,
                   !.calls = @ + 1]
    /\ UNCHANGED <<ret, saved, trace, ctor, puzzle>>
    /\ UNCHANGED genVars

BoardUndo ==
    /\ session.calls < MaxCalls
    /\ tree' = TreeUndo(tree).tree
    /\ ret' = TreeUndo(tree).ret
    /\ session' = [session EXCEPT
          !.error = "none",
          !.last = [op |-> "undo", row |-> 0, col |-> 0, value |-> 0],
          !.pure = FALSE,
          !.calls = @ + 1]
    /\ UNCHANGED <<uuid, saved, trace, ctor, puzzle>>
    /\ UNCHANGED genVars

BoardRedo ==
    /\ session.calls < MaxCalls
    /\ tree' = TreeRedo(tree).tree
    /\ ret' = TreeRedo(tree).ret
    /\ session' = [session EXCEPT
          !.error = "none",
          !.last = [op |-> "redo", row |-> 0, col |-> 0, value |-> 0],
          !.pure = FALSE,
          !.calls = @ + 1]
    /\ UNCHANGED <<uuid, saved, trace, ctor, puzzle>>
    /\ UNCHANGED genVars

\* the generator cuts one more cell out of the array its this.board refers
\* to (removeCells, called again after the handoff)
GeneratorRemoves ==
    /\ session.calls < MaxCalls
    /\ \E row \in {0, session.size - 1} : \E col \in {0, session.size - 1} :
          /\ session.arrays[session.generatorBoard][row + 1][col + 1] # 0
          /\ session' = [session EXCEPT
                !.arrays[session.generatorBoard][row + 1][col + 1] = 0,
                !.last = [op |-> "removeCells", row |-> row, col |-> col,
                          value |-> 0],
                !.calls = @ + 1]
    /\ UNCHANGED histVars
    /\ UNCHANGED <<ctor, puzzle>>
    /\ UNCHANGED genVars

\* a worker forked by solveLarge (sizes above 16) reports after the handoff:
\* this.board = board makes the generator refer to the array of the message
LateWorkerResult ==
    /\ session.calls < MaxCalls
    /\ session.size > 16
    /\ session' = [session EXCEPT
          !.arrays.worker = SolvedRows(session.size),
          !.generatorBoard = "worker",
          !.last = [op |-> "message", row |-> 0, col |-> 0, value |-> 0],
          !.calls = @ + 1]
    /\ UNCHANGED histVars
    /\ UNCHANGED <<ctor, puzzle>>
    /\ UNCHANGED genVars

InitBoard == BoardInit /\ GenInit

NextBoard ==
    Move \/ BoardUndo \/ BoardRedo \/ GeneratorRemoves \/ LateWorkerResult

\* a Board under move / undo / redo, next to the generator that made its grid
SpecBoard == InitBoard /\ [][NextBoard]_vars

\* ------------------------------------------------------------------------
\* Sudoku: the play loop (playGame, promptMove, placeNumber)
\* ------------------------------------------------------------------------
\* number of cells cut out of the puzzle that is played
MaxBlanks == 2

\* a Size x Size grid of rows as the grid the checker's functions index
AsGrid(rows) == [r \in Idx |-> [c \in Idx |-> rows[r + 1][c + 1]]]

\* the puzzles played: the solved grid with one to MaxBlanks cells of its
\* first row removed
PlayPuzzles ==
    {[SolvedRows(Size) EXCEPT
         ![1] = [j \in 1..Size |-> IF (j - 1) \in cut THEN 0 ELSE @[j]]] :
       cut \in {c \in SUBSET Idx : Cardinality(c) \in 1..MaxBlanks}}

\* Board.solved: generator.isBoardFilled(this.currentBoard)
BoardSolved(t) ==
    \A i \in 1..Len(CurrentBoard(t)) :
        \A j \in 1..Len(CurrentBoard(t)[i]) : CurrentBoard(t)[i][j] # 0

\* playGame(board), entered when the prompt of a command closes: a solved
\* board gets its solvedAt, is saved, and the welcome menu takes over
PlayGame(s, t) ==
    IF BoardSolved(t)
    THEN [s EXCEPT !.solvedAt = s.clock, !.over = TRUE]
    ELSE s

\* newGame: the Board is built and playGame shows the first prompt
PlayInit ==
    /\ \E grid \in PlayPuzzles :
          /\ tree = NewTree(Serialize(grid), 1)
          /\ session = PlayGame(NewBoard(grid), tree)
    /\ uuid = 1
    /\ ret = TRUE
    /\ saved = TreeStructure(tree)
    /\ trace = <<>>
    /\ ctor = NoCtor
    /\ puzzle = NoPuzzle

\* the session after one more command line: the clock has advanced
Command(s, op, row, col, value) ==
    [s EXCEPT !.last = [op |-> op, row |-> row, col |-> col, value |-> value],
              !.pure = FALSE,
              !.clock = @ + 1,
              !.calls = @ + 1]

\* the capital letters a position is written with; charCodeAt(0) - 65 of a
\* letter is its place in this list, counted from 0
Letters == <<"A", "B", "C", "D", "E", "F", "G", "H", "I">>

\* the characters the pattern [1-9] matches
RowDigits == {DigitChars[k] : k \in 2..10}

\* what charCodeAt(0) - 65 gives on the empty string: NaN, which no array
\* has as an index
NotANumber == -99

\* position.split(row[0]).join('').toUpperCase().charCodeAt(0) - 65 for the
\* one character left beside the row
ColumnOf(ch) == (CHOOSE k \in 1..Len(Letters) : Letters[k] = ch) - 1

\* extractRowColAndNumber on a position of two characters: the row is the
\* first match of /[1-9]{1,2}/ minus one, the column comes from what is left
ExtractRowCol(position) ==
    IF position[1] \in RowDigits /\ position[2] \in RowDigits
    THEN [ok |-> TRUE,
          row |-> 10 * DigitValue[position[1]] + DigitValue[position[2]] - 1,
          col |-> NotANumber]
    ELSE IF position[1] \in RowDigits
    THEN [ok |-> TRUE, row |-> DigitValue[position[1]] - 1,
          col |-> ColumnOf(position[2])]
    ELSE IF position[2] \in RowDigits
    THEN [ok |-> TRUE, row |-> DigitValue[position[2]] - 1,
          col |-> ColumnOf(position[1])]
    ELSE [ok |-> FALSE, row |-> 0, col |-> 0]

\* the positions typed: every cell of the first row, the column past its
\* end, a cell of the second row written letter first, the row past the
\* grid, a row of two digits, and a position without a row
PlayPositions ==
    {<<"1", Letters[k]>> : k \in 1..(Size + 1)}
        \cup {<<"A", "2">>, <<DigitChars[Size + 2], "A">>, <<"1", "1">>,
              <<"A", "B">>}

\* board.initialBoard[row][col] !== 0: reading a row outside the array gives
\* undefined, and indexing undefined throws a TypeError; a column outside
\* the row gives undefined, which differs from 0
GivenCheck(initial, row, col) ==
    IF row < 0 \/ row >= Len(initial) THEN "TypeError"
    ELSE IF col < 0 \/ col >= Len(initial[row + 1]) THEN "given"
    ELSE IF initial[row + 1][col + 1] # 0 THEN "given"
    ELSE "free"

\* the uncaught exception ends the process: no further command is read
Crash(s, row, col, value) ==
    [Command(s, "TypeError", row, col, value) EXCEPT
        !.error = "TypeError", !.over = TRUE]

\* "play <position> <number>" with a number the parser lets through
\* (1 .. N): placeNumber extracts row and column, refuses a given cell and
\* a number that the static getValidValues does not return; otherwise it
\* calls board.move and closes the prompt, which runs playGame
PlayCommand ==
    /\ ~session.over
    /\ session.calls < MaxCalls
    /\ \E position \in PlayPositions : \E number \in 1..Size :
          LET cell == ExtractRowCol(position)
              row == cell.row
              col == cell.col
              given == GivenCheck(InitialBoard(session), row, col)
          IN IF ~cell.ok
             THEN /\ session' =
                        Command(session, "badAttempt", row, col, number)
                  /\ UNCHANGED <<tree, uuid>>
             ELSE IF given = "TypeError"
             THEN /\ session' = Crash(session, row, col, number)
                  /\ UNCHANGED <<tree, uuid>>
             ELSE IF given = "given"
                     \/ IndexOf(StaticGetValidValues(
                                   AsGrid(CurrentBoard(tree)), row, col),
                                number) = -1
             THEN /\ session' =
                        Command(session, "badAttempt", row, col, number)
                  /\ UNCHANGED <<tree, uuid>>
             ELSE /\ tree' = BoardMove(tree, row, col, number, uuid + 1).tree
                  /\ uuid' = uuid + 1
                  /\ session' =
                        PlayGame(Command(session, "play", row, col, number),
                                 tree')
    /\ UNCHANGED <<ret, saved, trace, ctor, puzzle>>
    /\ UNCHANGED genVars

\* "undo": board.undo(); a successful one closes the prompt
UndoCommand ==
    /\ ~session.over
    /\ session.calls < MaxCalls
    /\ tree' = TreeUndo(tree).tree
    /\ ret' = TreeUndo(tree).ret
    /\ session' = IF ret'
                  THEN PlayGame(Command(session, "undo", 0, 0, 0), tree')
                  ELSE Command(session, "badAttempt", 0, 0, 0)
    /\ UNCHANGED <<uuid, saved, trace, ctor, puzzle>>
    /\ UNCHANGED genVars

\* "redo": board.redo(); a successful one closes the prompt
RedoCommand ==
    /\ ~session.over
    /\ session.calls < MaxCalls
    /\ tree' = TreeRedo(tree).tree
    /\ ret' = TreeRedo(tree).ret
    /\ session' = IF ret'
                  THEN PlayGame(Command(session, "redo", 0, 0, 0), tree')
                  ELSE Command(session, "badAttempt", 0, 0, 0)
    /\ UNCHANGED <<uuid, saved, trace, ctor, puzzle>>
    /\ UNCHANGED genVars

\* str.split(sep): the pieces of str between the occurrences of sep
RECURSIVE Split(_, _)
Split(str, sep) ==
    IF \A k \in 1..Len(str) : str[k] # sep THEN <<str>>
    ELSE LET at == CHOOSE k \in 1..Len(str) :
                      str[k] = sep /\ \A j \in 1..(k - 1) : str[j] # sep
         IN <<SubSeq(str, 1, at - 1)>> \o Split(SubSeq(str, at + 1, Len(str)), sep)

\* parseInt(str) of a string of several characters: the decimal value of
\* its leading digits, NaN when it does not start with a digit
RECURSIVE LeadingDigits(_, _)
LeadingDigits(str, value) ==
    IF str = <<>> \/ Head(str) \notin DOMAIN DigitValue THEN value
    ELSE LeadingDigits(Tail(str), 10 * value + DigitValue[Head(str)])

ParseIntString(str) ==
    IF str = <<>> \/ Head(str) \notin DOMAIN DigitValue THEN NotANumber
    ELSE LeadingDigits(str, 0)

\* printLoadedGame: history.current.map((row) =>
\* `${row}`.split(',').map((n) => parseInt(n))), the grid handed to
\* Table.format
LoadedGrid(value) ==
    [i \in 1..Len(value) |->
        [k \in 1..Len(Split(value[i], ",")) |->
            ParseIntString(Split(value[i], ",")[k])]]

\* the tree after `count` successful "next" commands of the viewer
RECURSIVE RedoTimes(_, _)
RedoTimes(t, count) ==
    IF count = 0 \/ ~TreeRedo(t).ret THEN t
    ELSE RedoTimes(TreeRedo(t).tree, count - 1)

\* the solved game was saved by writeGame; it is loaded from its structure
\* and the viewer prints the snapshot it is at, the root's or the one some
\* "next" commands lead to
LoadedGame ==
    /\ session.over
    /\ session.solvedAt # 0
    /\ session.shownOf = <<>>
    /\ \E count \in 0..MaxCalls :
          LET loaded == RedoTimes(TreeFromStructure(TreeStructure(tree)), count)
          IN session' = [session EXCEPT
                            !.shownOf = Current(loaded),
                            !.shown = LoadedGrid(Current(loaded))]
    /\ UNCHANGED histVars
    /\ UNCHANGED <<ctor, puzzle>>
    /\ UNCHANGED genVars

InitPlay == PlayInit /\ GenInit

NextPlay == PlayCommand \/ UndoCommand \/ RedoCommand \/ LoadedGame

\* one game played from the prompt
SpecPlay == InitPlay /\ [][NextPlay]_vars

\* ------------------------------------------------------------------------
\* BoardGenerator.generate() on a pool of workers (solve / solveLarge in the
\* parent, utils/solve.ts in each worker)
\* ------------------------------------------------------------------------
\* largest number of children the loop `i < cpus().length / 2` forks
MaxWorkers == 2

\* array with the elements at 1-based positions i and j exchanged
Swap(array, i, j) == [array EXCEPT ![i] = array[j], ![j] = array[i]]

\* the orders the shuffle of 1..size in a worker's fillDiagonals is drawn from
WorkerShuffles ==
    {OneTo(Size), Swap(OneTo(Size), 1, 2), Swap(OneTo(Size), 2, 3)}

\* fillDiagonals(board): the subgrid at offset d * subgridSize receives
\* values[d], row by row
FillDiagonals(b, values) ==
    [r \in Idx |-> [c \in Idx |->
        IF r \div SubgridSize = c \div SubgridSize
        THEN values[r \div SubgridSize]
                   [(r % SubgridSize) * SubgridSize + (c % SubgridSize) + 1]
        ELSE b[r][c]]]

\* solve(board) as a function: the grids it can leave in board when it
\* returns true, over every shuffle of the candidates; it returns false
\* exactly when there is none
RECURSIVE SolveOutcomes(_)
SolveOutcomes(b) ==
    IF IsBoardFilled(b) THEN {b}
    ELSE UNION {UNION {UNION {SolveOutcomes(tried) :
                    tried \in {[b EXCEPT ![cell.row][cell.col] = candidates[n]] :
                                 n \in {m \in 1..Len(candidates) :
                                    IsValid(b, cell.row, cell.col, candidates[m])}}} :
                candidates \in {StaticGetValidValues(b, cell.row, cell.col)}} :
            cell \in {FindNextEmpty(b)}}

\* the grids a worker can have after fillDiagonals on the board it received
WorkerSeeds(b) ==
    {FillDiagonals(b, values) :
        values \in [0..(SubgridSize - 1) -> WorkerShuffles]}

\* killChildren(): child.kill() for every child of the pool; a message a
\* child has already sent stays on its channel
KillChildren(workers) ==
    [w \in DOMAIN workers |-> [workers[w] EXCEPT !.phase = "killed"]]

\* variant of resolve / reject that settles a promise again
SettleAgain(p, state, value) ==
    [p EXCEPT !.promise = state, !.value = value]

\* resolve(value) / reject(value) of the promise of generate(): they settle
\* a pending promise and have no effect on a settled one
Settle(p, state, value) ==
    IF p.promise = "pending"
    THEN [p EXCEPT !.promise = state, !.value = value]
    ELSE p

\* generate(): fork the children, send each of them this.board, register
\* the handlers and return the pending promise
PoolGenerate ==
    /\ pc = "new"
    /\ pool.promise = "none"
    /\ \E numProcesses \in 1..MaxWorkers :
          pool' = [promise |-> "pending",
                   value |-> [kind |-> "none", from |-> 0],
                   workers |-> [w \in 1..numProcesses |->
                                   [phase |-> "forked", inbox |-> board,
                                    mail |-> <<>>, error |-> FALSE]]]
    /\ UNCHANGED <<board, pc, fill, stack, result, placed, query>>
    /\ UNCHANGED histVars
    /\ UNCHANGED playVars

\* the worker's handler: fillDiagonals, solve returns true, process.send(board)
WorkerFinds(w) ==
    /\ w \in DOMAIN pool.workers
    /\ pool.workers[w].phase = "forked"
    /\ \E seed \in WorkerSeeds(pool.workers[w].inbox) :
          \E solvedBoard \in SolveOutcomes(seed) :
              pool' = [pool EXCEPT !.workers[w].phase = "sent",
                                   !.workers[w].mail = <<solvedBoard>>]
    /\ UNCHANGED <<board, pc, fill, stack, result, placed, query>>
    /\ UNCHANGED histVars
    /\ UNCHANGED playVars

\* the worker's handler: fillDiagonals, solve returns false, nothing is sent
WorkerGivesUp(w) ==
    /\ w \in DOMAIN pool.workers
    /\ pool.workers[w].phase = "forked"
    /\ \E seed \in WorkerSeeds(pool.workers[w].inbox) : SolveOutcomes(seed) = {}
    /\ pool' = [pool EXCEPT !.workers[w].phase = "silent"]
    /\ UNCHANGED <<board, pc, fill, stack, result, placed, query>>
    /\ UNCHANGED histVars
    /\ UNCHANGED playVars

\* child.on('message'): this.board = board; killChildren(); resolve(true)
Deliver(w) ==
    /\ w \in DOMAIN pool.workers
    /\ pool.workers[w].mail # <<>>
    /\ board' = Head(pool.workers[w].mail)
    /\ pool' = Settle([pool EXCEPT !.workers = KillChildren(
                                  [pool.workers EXCEPT ![w].mail = Tail(@)])],
                      "resolved", [kind |-> "true", from |-> 0])
    /\ UNCHANGED <<pc, fill, stack, result, placed, query>>
    /\ UNCHANGED histVars
    /\ UNCHANGED playVars

\* child.on('error'): killChildren(); reject(err), err being the error of
\* child w
WorkerError(w) ==
    /\ w \in DOMAIN pool.workers
    /\ ~pool.workers[w].error
    /\ pool' = Settle([pool EXCEPT !.workers = KillChildren(
                                  [pool.workers EXCEPT ![w].error = TRUE])],
                      "rejected", [kind |-> "error", from |-> w])
    /\ UNCHANGED <<board, pc, fill, stack, result, placed, query>>
    /\ UNCHANGED histVars
    /\ UNCHANGED playVars

InitPool == HistIdle /\ GenInit /\ PlayIdle

NextPool ==
    \/ PoolGenerate
    \/ \E w \in 1..MaxWorkers : WorkerFinds(w)
    \/ \E w \in 1..MaxWorkers : WorkerGivesUp(w)
    \/ \E w \in 1..MaxWorkers : Deliver(w)
    \/ \E w \in 1..MaxWorkers : WorkerError(w)

\* one parallel generate(): every worker that is not killed runs its handler
\* to the end, and every message sent is handled by the parent; nothing
\* makes a worker raise an error
SpecPool ==
    /\ InitPool
    /\ [][NextPool]_vars
    /\ \A w \in 1..MaxWorkers :
          /\ WF_vars(WorkerFinds(w) \/ WorkerGivesUp(w))
          /\ WF_vars(Deliver(w))

\* ------------------------------------------------------------------------
\* HistoryTree with an undo stack and a redo stack (classes/History.ts)
\* ------------------------------------------------------------------------
\* new HistoryTree(value): the root is current, both stacks are empty
StackNew(value) ==
    [nodes |-> <<[value |-> value, parent |-> Null, children |-> <<>>]>>,
     root |-> 1, currentNode |-> 1, undoStack |-> <<>>, redoStack |-> <<>>]

\* variant of addChild that leaves the redo stack as it is
StackAddChildKeepsRedo(h, value) ==
    LET child == Len(h.nodes) + 1
    IN [h EXCEPT !.nodes = Append([h.nodes EXCEPT ![h.currentNode].children =
                                                      Append(@, child)],
                                  [value |-> value, parent |-> h.currentNode,
                                   children |-> <<>>]),
                 !.undoStack = Append(@, h.currentNode),
                 !.currentNode = child]

\* addChild(value): the child is pushed on current's children, current goes
\* on the undo stack, the child becomes current, the redo stack is emptied
StackAddChild(h, value) ==
    LET child == Len(h.nodes) + 1
    IN [h EXCEPT !.nodes = Append([h.nodes EXCEPT ![h.currentNode].children =
                                                      Append(@, child)],
                                  [value |-> value, parent |-> h.currentNode,
                                   children |-> <<>>]),
                 !.undoStack = Append(@, h.currentNode),
                 !.currentNode = child,
                 !.redoStack = <<>>]

\* undo(): pop the undo stack into current, push current on the redo stack
StackUndo(h) ==
    IF Len(h.undoStack) > 0
    THEN [h EXCEPT !.redoStack = Append(@, h.currentNode),
                   !.currentNode = h.undoStack[Len(h.undoStack)],
                   !.undoStack = SubSeq(@, 1, Len(@) - 1)]
    ELSE h

\* redo(): pop the redo stack into current, push current on the undo stack
StackRedo(h) ==
    IF Len(h.redoStack) > 0
    THEN [h EXCEPT !.undoStack = Append(@, h.currentNode),
                   !.currentNode = h.redoStack[Len(h.redoStack)],
                   !.redoStack = SubSeq(@, 1, Len(@) - 1)]
    ELSE h

\* get current(): the value of the current node
StackCurrent(h) == h.nodes[h.currentNode].value

\* the two-stack history after the first k operations of a sequence that
\* started on a root of the given value
RECURSIVE StackAfter(_, _, _)
StackAfter(first, ops, k) ==
    IF k = 0 THEN StackNew(first)
    ELSE LET h == StackAfter(first, ops, k - 1)
         IN IF ops[k].op = "addChild" THEN StackAddChild(h, ops[k].arg)
            ELSE IF ops[k].op = "undo" THEN StackUndo(h)
            ELSE IF ops[k].op = "redo" THEN StackRedo(h)
            ELSE h

\* ------------------------------------------------------------------------
\* Sudoku.newGame: generate, cut a puzzle, open the game
\* ------------------------------------------------------------------------
\* the orders the shuffle of fillDiagonal is drawn from in newGame for the
\* subgrids after the first, which gets 1..size in order: with the second
\* order the seeded grid of size 4 has no completion
NewGameShuffles == {OneTo(Size), Swap(OneTo(Size), 2, 3)}

\* the grids fillDiagonal can leave in a new generator
NewGameSeeds ==
    {FillDiagonals(EmptyBoard,
                   [d \in 0..(SubgridSize - 1) |->
                       IF d = 0 THEN OneTo(Size) ELSE values[d]]) :
        values \in [1..(SubgridSize - 1) -> NewGameShuffles]}

\* a grid of the generator as the array of rows handed to new Board
GridRows(b) == [i \in 1..Size |-> [j \in 1..Size |-> b[i - 1][j - 1]]]

\* variant of newGame that awaits generate() and drops what it returned
GenerateUnchecked == TRUE

\* the test newGame makes on what generate() returned
GenerateSucceeded == result = "true"

\* newGame up to the test: the size menu, new BoardGenerator(size) (the
\* nth one of this run of the program) and generate(), which leaves a solved
\* grid and returns true, or leaves the seeded grid and returns false
NewGameGenerate ==
    /\ pc = "new"
    /\ ctor' = NewBoardGenerator(Size)
                  @@ [nth |-> IF ctor.called THEN ctor.nth + 1 ELSE 1]
    /\ \E seed \in NewGameSeeds :
          IF SolveOutcomes(seed) = {}
          THEN board' = seed /\ result' = "false"
          ELSE \E solved \in SolveOutcomes(seed) :
                  board' = solved /\ result' = "true"
    /\ pc' = "generated"
    /\ UNCHANGED <<fill, stack, placed, query, pool>>
    /\ UNCHANGED <<puzzle, session>>
    /\ UNCHANGED histVars

\* generate() returned false: 'Could not generate a board!', and newGame
\* calls itself and returns
NewGameRetry ==
    /\ pc = "generated"
    /\ ~GenerateSucceeded
    /\ ctor.nth < MaxCalls
    /\ pc' = "new"
    /\ board' = EmptyBoard
    /\ result' = "none"
    /\ UNCHANGED <<fill, stack, placed, query, pool>>
    /\ UNCHANGED playVars
    /\ UNCHANGED histVars

\* newGame goes on to the difficulty menu
NewGameAccept ==
    /\ pc = "generated"
    /\ GenerateSucceeded
    /\ pc' = "solved"
    /\ UNCHANGED <<board, fill, stack, result, placed, query, pool>>
    /\ UNCHANGED playVars
    /\ UNCHANGED histVars

\* new Board(puzzle, boardGenerator, difficulty) and playGame(currentBoard)
NewGameBoard ==
    /\ pc = "puzzle"
    /\ tree' = NewTree(Serialize(GridRows(board)), 1)
    /\ session' = PlayGame(NewBoard(GridRows(board)), tree')
    /\ uuid' = 1
    /\ ret' = TRUE
    /\ saved' = TreeStructure(tree')
    /\ trace' = <<>>
    /\ pc' = "playing"
    /\ UNCHANGED <<board, fill, stack, result, placed, query, pool>>
    /\ UNCHANGED <<ctor, puzzle>>

InitNewGame == HistIdle /\ GenInit /\ PlayIdle

NextNewGame ==
    \/ NewGameGenerate \/ NewGameRetry \/ NewGameAccept
    \/ GeneratePuzzle \/ GenerateCustomPuzzle
    \/ RemoveHit \/ RemoveMiss \/ RemoveReturn
    \/ NewGameBoard

\* one choice of "new game" in the welcome menu, up to the first prompt
SpecNewGame == InitNewGame /\ [][NextNewGame]_vars

\* ------------------------------------------------------------------------
\* Properties of the history tree
\* ------------------------------------------------------------------------
Last(s) == s[Len(s)]

\* the node of t that carries identifier id
NodeById(t, id) == CHOOSE n \in 1..Len(t.nodes) : t.nodes[n]._id = id

\* the position of node n in the children list of node p (0 if absent)
ChildPos(t, p, n) ==
    IF \E i \in 1..Len(t.nodes[p].children) : t.nodes[p].children[i] = n
    THEN CHOOSE i \in 1..Len(t.nodes[p].children) : t.nodes[p].children[i] = n
    ELSE 0

\* entries i..i+k-1 of the trace are k addChild calls, and the entries after
\* them up to p are the first of k undo calls followed by k redo calls
RoundTripUpTo(i, k, p) ==
    /\ i + k - 1 < p
    /\ p <= i + 3 * k - 1
    /\ p <= Len(trace)
    /\ \A j \in i..p :
          trace[j].op = IF j < i + k THEN "addChild"
                        ELSE IF j < i + 2 * k THEN "undo" ELSE "redo"

\* C1: after k consecutive addChild(S1..Sk), each of k consecutive undo()
\* calls returns true, walking back through S(k-1)..S1 to the state that
\* was current before the first addChild, and each of k following redo()
\* calls returns true, visiting S1..Sk in order.
C1_RoundTrip ==
    \A i \in {j \in 1..Len(trace) : trace[j].op = "addChild"} :
    \A k \in 1..(Len(trace) - i) : \A p \in (i + k)..Len(trace) :
        RoundTripUpTo(i, k, p) =>
            /\ trace[p].ret = TRUE
            /\ p < i + 2 * k =>
                  \* the m-th undo leaves current where addChild number
                  \* k-m+1 started
                  trace[p].to = trace[2 * i + 2 * k - 1 - p].from
            /\ p >= i + 2 * k =>
                  \* the j-th redo reaches the node the j-th addChild made
                  /\ trace[p].to = trace[p - 2 * k].to
                  /\ trace[p].to.value = trace[p - 2 * k].arg

\* a complete round trip of two moves that started below the root of a
\* tree which already had a branch
C1_Witness ==
    \E i \in 2..Len(trace) :
        /\ RoundTripUpTo(i, 2, i + 5)
        /\ trace[i].from.id # tree.nodes[tree.root]._id

\* entries i, i+1, i+2 of the trace are addChild(S1), undo(), addChild(S2)
ForkAt(i) ==
    /\ i + 2 <= Len(trace)
    /\ trace[i].op = "addChild"
    /\ trace[i + 1].op = "undo"
    /\ trace[i + 2].op = "addChild"

\* S0 keeps S1 and S2 as children, S1 before S2
ForkKept(i) ==
    LET s0 == NodeById(tree, trace[i].from.id)
        s1 == NodeById(tree, trace[i].to.id)
        s2 == NodeById(tree, trace[i + 2].to.id)
    IN /\ ChildPos(tree, s0, s1) > 0
       /\ ChildPos(tree, s0, s2) > ChildPos(tree, s0, s1)
       /\ tree.nodes[s1].value = trace[i].arg
       /\ tree.nodes[s2].value = trace[i + 2].arg

\* C2 (as stated): after addChild(S1), undo(), addChild(S2) from S0, S0
\* has the children S1 and S2 in that order, and every later redo()
\* performed while current is S0 makes S2 current.
C2_ForkAsStated ==
    \A i \in 1..Len(trace) :
        ForkAt(i) =>
            /\ ForkKept(i)
            /\ \A j \in (i + 3)..Len(trace) :
                  (trace[j].op = "redo" /\ trace[j].from.id = trace[i].from.id)
                      => (trace[j].ret /\ trace[j].to = trace[i + 2].to)

\* C2 (amended): after addChild(S1), undo(), addChild(S2) from S0, S0 has
\* the children S1 and S2 in that order; every later redo() performed while
\* current is S0 succeeds and never makes S1 current, and it makes S2
\* current as long as no further addChild was performed on S0 in between
\* (redo takes the last-added child).
C2_Fork ==
    \A i \in 1..Len(trace) :
        ForkAt(i) =>
            /\ ForkKept(i)
            /\ \A j \in (i + 3)..Len(trace) :
                  (trace[j].op = "redo" /\ trace[j].from.id = trace[i].from.id)
                      => /\ trace[j].ret
                         /\ trace[j].to.id # trace[i].to.id
                         /\ (\A m \in (i + 3)..(j - 1) :
                                ~(trace[m].op = "addChild"
                                  /\ trace[m].from.id = trace[i].from.id))
                               => trace[j].to = trace[i + 2].to

\* a fork followed by an undo and a redo from S0 that lands on S2
C2_Witness ==
    \E i \in 1..Len(trace) :
        /\ ForkAt(i)
        /\ i + 4 <= Len(trace)
        /\ trace[i + 3].op = "undo"
        /\ trace[i + 4].op = "redo"
        /\ trace[i + 4].to = trace[i + 2].to
        /\ trace[i].arg # trace[i + 2].arg

\* C8: the tree rebuilt by fromStructure(tree.structure) has the same ids,
\* values, parents, children order and active-child indices: its structure
\* equals the structure it was built from.
C8_StructureRoundTrip ==
    (trace # <<>> /\ Last(trace).op = "fromStructure")
        => TreeStructure(tree) = saved

\* a branched tree with a non-default active index at the root and below
\* has just been rebuilt
C8_Witness ==
    /\ trace # <<>>
    /\ Last(trace).op = "fromStructure"
    /\ Len(tree.nodes) >= 4
    /\ Len(tree.nodes[tree.root].children) >= 2
    /\ tree.nodes[tree.root].activeIndex = 1
    /\ \E n \in 2..Len(tree.nodes) : tree.nodes[n].activeIndex = 0

\* the step is a call of op
Called(op) == Len(trace') = Len(trace) + 1 /\ Last(trace').op = op

\* C9: undo() while current is the root returns false and changes nothing;
\* redo() while current has no children returns false and changes nothing.
C9_Boundary ==
    [][/\ (Called("undo") /\ Cur(tree).parent = Null)
            => (tree' = tree /\ ret' = FALSE)
       /\ (Called("redo") /\ Len(Cur(tree).children) = 0)
            => (tree' = tree /\ ret' = FALSE)]_vars

\* both boundaries were hit: an undo at the root of a rebuilt tree whose root
\* has an active child, and a redo at a leaf
C9_Witness ==
    /\ \E i \in 2..Len(trace) :
          /\ trace[i].op = "undo" /\ ~trace[i].ret
          /\ trace[i - 1].op = "fromStructure"
          /\ tree.nodes[tree.root].activeIndex >= 0
    /\ \E j \in 1..Len(trace) : trace[j].op = "redo" /\ ~trace[j].ret

\* n reaches the root by following at most fuel parent links
RECURSIVE ReachesRoot(_, _, _)
ReachesRoot(t, n, fuel) ==
    IF n = t.root THEN TRUE
    ELSE IF fuel = 0 \/ t.nodes[n].parent = Null THEN FALSE
    ELSE ReachesRoot(t, t.nodes[n].parent, fuel - 1)

\* the number of (parent, position) pairs at which n is listed as a child
Occurrences(t, n) ==
    Cardinality({pi \in (1..Len(t.nodes)) \X (1..Len(t.nodes)) :
                    /\ pi[2] <= Len(t.nodes[pi[1]].children)
                    /\ t.nodes[pi[1]].children[pi[2]] = n})

\* C10: exactly one node (the root) has no parent; every other node occurs
\* in exactly one children list, that of its parent; parent links lead to
\* the root; every activeIndex is -1 or a valid index; ids are pairwise
\* distinct; current references a node of the tree.
C10_TreeInvariants ==
    LET N == 1..Len(tree.nodes) IN
    /\ tree.root \in N
    /\ \A n \in N : (tree.nodes[n].parent = Null) <=> (n = tree.root)
    /\ Occurrences(tree, tree.root) = 0
    /\ \A n \in N \ {tree.root} :
          /\ tree.nodes[n].parent \in N
          /\ Occurrences(tree, n) = 1
          /\ ChildPos(tree, tree.nodes[n].parent, n) > 0
    /\ \A n \in N : ReachesRoot(tree, n, Len(tree.nodes))
    /\ \A n \in N : tree.nodes[n].activeIndex \in -1..(Len(tree.nodes[n].children) - 1)
    /\ \A n \in N : \A m \in N : tree.nodes[n]._id = tree.nodes[m]._id => n = m
    /\ tree.currentNode \in N

\* a branched tree that was rebuilt from its structure and then navigated
\* and extended
C10_Witness ==
    /\ \E i \in 1..Len(trace) : trace[i].op = "fromStructure" /\ i < Len(trace)
    /\ Len(tree.nodes) >= 4
    /\ \E n \in 1..Len(tree.nodes) : Len(tree.nodes[n].children) >= 2
    /\ tree.currentNode # tree.root

\* ------------------------------------------------------------------------
\* Properties of the constraint checker and the generator
\* ------------------------------------------------------------------------
\* the cells that share a row, a column or a subgrid with (row, col),
\* the cell itself included
Peers(row, col) ==
    {cell \in Idx \X Idx : cell[1] = row \/ cell[2] = col}
        \cup SubgridCells(row, col)

\* the values of 1..Size found in no cell of the row, column and subgrid
Legal(b, row, col) ==
    {v \in 1..Size : \A cell \in Peers(row, col) : b[cell[1]][cell[2]] # v}

ToSet(values) == {values[i] : i \in 1..Len(values)}

\* the cells of the aligned subgrids
Subgrids == {SubgridCells(r * SubgridSize, c * SubgridSize) :
                r \in 0..(SubgridSize - 1), c \in 0..(SubgridSize - 1)}

\* the rows, the columns and the subgrids, as sets of cells
Units ==
    {{<<r, c>> : c \in Idx} : r \in Idx}
        \cup {{<<r, c>> : r \in Idx} : c \in Idx}
        \cup Subgrids

\* no value is repeated among the non-zero cells of a row, column or subgrid
NoDuplicates(b) ==
    \A r \in Idx : \A c \in Idx :
        b[r][c] # 0 =>
            /\ \A i \in Idx : (i # c => b[r][i] # b[r][c]) /\ (i # r => b[i][c] # b[r][c])
            /\ \A i \in 0..(SubgridSize - 1) : \A j \in 0..(SubgridSize - 1) :
                  LET y == <<r - (r % SubgridSize) + i, c - (c % SubgridSize) + j>>
                  IN y # <<r, c>> => b[y[1]][y[2]] # b[r][c]

\* every row, column and subgrid holds each of 1..Size exactly once
Solved(b) ==
    \A unit \in Units : \A v \in 1..Size :
        Cardinality({x \in unit : b[x[1]][x[2]] = v}) = 1

\* the diagonal subgrids of b, every other cell empty
Seed(b) ==
    [r \in Idx |-> [c \in Idx |->
        IF r \div SubgridSize = c \div SubgridSize THEN b[r][c] ELSE 0]]

\* b can be completed to a solved grid
RECURSIVE Completable(_)
Completable(b) ==
    IF \A r \in Idx : \A c \in Idx : b[r][c] # 0 THEN Solved(b)
    ELSE LET cell == CHOOSE x \in Idx \X Idx : b[x[1]][x[2]] = 0
         IN \E v \in Legal(b, cell[1], cell[2]) :
                Completable([b EXCEPT ![cell[1]][cell[2]] = v])

C4_NoFalsePositive ==
    /\ NoDuplicates(board)
    /\ result = "true" => Solved(board)

\* the search is in the middle of the grid, beyond the seeded subgrids
C4_Witness ==
    /\ pc = "loop"
    /\ Len(stack) >= 3
    /\ \E r \in Idx : \E c \in Idx :
          r \div SubgridSize # c \div SubgridSize /\ board[r][c] # 0
    /\ ~IsBoardFilled(board)

\* C5: getValidValues(grid, row, col) returns exactly the values of 1..N
\* that occur in no cell of the row, the column and the subgrid of the cell.
C5_ValidValuesExact ==
    query.asked =>
        /\ ToSet(query.static) = Legal(query.board, query.row, query.col)
        /\ ToSet(query.instance) = Legal(query.board, query.row, query.col)

\* C6: on a solved grid getValidValues returns no value for any cell, and
\* after zeroing one cell it returns exactly the removed value for it.
C6_SolvedGridValues ==
    (query.asked /\ Solved(board)) =>
        LET expected == IF query.board[query.row][query.col] = 0
                        THEN <<board[query.row][query.col]>> ELSE <<>>
        IN /\ query.static = expected
           /\ query.instance = expected

\* value occurs in a cell of the row, column or subgrid other than the cell
InOtherCell(b, row, col, value) ==
    \E cell \in Peers(row, col) \ {<<row, col>>} : b[cell[1]][cell[2]] = value

\* C7 (as stated): isValid(grid, row, col, value) is true iff value appears
\* in no other cell of the row, column and subgrid; the cell itself is left
\* out of the check.
C7_IsValidOthersOnly ==
    query.asked =>
        \A v \in 1..Size :
            query.isValid[v] <=> ~InOtherCell(query.board, query.row, query.col, v)

\* C7 (amended): isValid(grid, row, col, value) is true iff value appears in
\* no cell of the row, column and subgrid, the cell (row, col) itself
\* included; it is the "no other cell" test whenever the cell does not hold
\* value, in particular whenever the cell is empty.
C7_IsValid ==
    query.asked =>
        \A v \in 0..Size :
            LET b == query.board
                inAnyCell == \E cell \in Peers(query.row, query.col) :
                                 b[cell[1]][cell[2]] = v
            IN /\ query.isValid[v] <=> ~inAnyCell
               /\ b[query.row][query.col] # v =>
                     (query.isValid[v] <=> ~InOtherCell(b, query.row, query.col, v))

\* isValid was asked about a filled cell whose value occurs nowhere else,
\* with a value excluded by the subgrid alone and a value that is legal
C7_Witness ==
    /\ query.asked
    /\ LET b == query.board
           own == b[query.row][query.col]
       IN /\ own # 0
          /\ ~InOtherCell(b, query.row, query.col, own)
          /\ ~query.isValid[own]
          /\ \E v \in 1..Size : query.isValid[v]
          /\ \E v \in 1..Size :
                /\ ~query.isValid[v]
                /\ \A i \in Idx : b[query.row][i] # v /\ b[i][query.col] # v

\* the identifiers of the nodes of t
IdsOf(t) == {t.nodes[n]._id : n \in 1..Len(t.nodes)}

\* the identifiers of the children of the node of t that carries id, in order
ChildIds(t, id) ==
    LET n == NodeById(t, id)
    IN [i \in 1..Len(t.nodes[n].children) |-> t.nodes[t.nodes[n].children[i]]._id]

\* the identifier of the parent of the node of t that carries id (Null: none)
ParentId(t, id) ==
    LET n == NodeById(t, id)
    IN IF t.nodes[n].parent = Null THEN Null ELSE t.nodes[t.nodes[n].parent]._id

\* s is an initial segment of t
IsPrefix(s, t) == Len(s) <= Len(t) /\ SubSeq(t, 1, Len(s)) = s

\* C11: no operation removes a node, changes the value, id or parent of an
\* existing node, or removes or reorders entries of a children list (lists
\* only get longer at the end); undo and redo leave the node set and all
\* children lists unchanged. Nodes are identified by their id, which is what
\* survives fromStructure.
C11_OnlyGrows ==
    [][/\ \A id \in IdsOf(tree) :
            /\ id \in IdsOf(tree')
            /\ tree'.nodes[NodeById(tree', id)].value
                   = tree.nodes[NodeById(tree, id)].value
            /\ ParentId(tree', id) = ParentId(tree, id)
            /\ IsPrefix(ChildIds(tree, id), ChildIds(tree', id))
       /\ (Called("undo") \/ Called("redo")) =>
            /\ IdsOf(tree') = IdsOf(tree)
            /\ \A id \in IdsOf(tree) : ChildIds(tree', id) = ChildIds(tree, id)
       /\ Called("fromStructure") =>
            /\ IdsOf(tree') = IdsOf(tree)
            /\ \A id \in IdsOf(tree) : ChildIds(tree', id) = ChildIds(tree, id)]_vars

\* a branched tree went through undo, redo and fromStructure and was then
\* extended
C11_Witness ==
    /\ \E i \in 1..Len(trace) : trace[i].op = "undo" /\ trace[i].ret
    /\ \E i \in 1..Len(trace) : trace[i].op = "redo" /\ trace[i].ret
    /\ \E i \in 1..Len(trace) :
          /\ trace[i].op = "fromStructure"
          /\ \E j \in (i + 1)..Len(trace) : trace[j].op = "addChild"
    /\ \E n \in 1..Len(tree.nodes) : Len(tree.nodes[n].children) >= 2

\* ------------------------------------------------------------------------
\* Properties of the generator constructor
\* ------------------------------------------------------------------------
\* C20: the constructor fails with 'Invalid size' exactly when size has no
\* integer square root, and otherwise yields a size x size grid of zeros;
\* no grid is produced for a non-square size.
C20_Constructor ==
    ctor.called =>
        LET square == \E q \in 0..MaxSize : q * q = ctor.size
        IN /\ (ctor.error = "Invalid size") <=> ~square
           /\ ~square => "board" \notin DOMAIN ctor
           /\ square =>
                /\ ctor.error = "none"
                /\ DOMAIN ctor.board = 0..(ctor.size - 1)
                /\ \A r \in DOMAIN ctor.board :
                      /\ DOMAIN ctor.board[r] = 0..(ctor.size - 1)
                      /\ \A c \in DOMAIN ctor.board[r] : ctor.board[r][c] = 0

\* the constructor was given the size of the 16 x 16 mode and built its grid
C20_Witness ==
    /\ ctor.called
    /\ ctor.size = 16
    /\ ctor.error = "none"
    /\ Cardinality(DOMAIN ctor.board) = 16

\* ------------------------------------------------------------------------
\* Properties of puzzle cutting
\* ------------------------------------------------------------------------
\* the number of zero cells of b
Blanks(b) == Cardinality({cell \in Idx \X Idx : b[cell[1]][cell[2]] = 0})

\* C13: the number of zero cells of the puzzle returned by
\* generatePuzzle(D) on a solved grid lies within
\* [min(D) * N^2, max(D) * N^2] (fractions in hundredths).
C13_BlankBounds ==
    (pc = "puzzle" /\ puzzle.mode = "difficulty") =>
        /\ 100 * Blanks(board) >= MinValues[puzzle.level] * Size * Size
        /\ 100 * Blanks(board) <= MaxValues[puzzle.level] * Size * Size

\* C14: during and after generatePuzzle / generateCustomPuzzle every
\* non-zero cell holds the value it had in the solved grid before removal.
C14_GivensPreserved ==
    pc \in {"removing", "puzzle"} =>
        \A r \in Idx : \A c \in Idx :
            board[r][c] # 0 => board[r][c] = puzzle.solved[r][c]

\* a puzzle was returned with blanks and with givens left
C14_Witness ==
    /\ pc = "puzzle"
    /\ Blanks(board) >= 2
    /\ Blanks(board) < Size * Size
    /\ Solved(puzzle.solved)

\* C15: generateCustomPuzzle(count) on a solved grid terminates, under fair
\* random cell selection, with exactly count zero cells, whatever the count
\* handed to it; the other cells are returned as they were (no solvability
\* or uniqueness check puts a cell back).
C15_CustomTerminates ==
    (pc = "removing")
        ~> (/\ pc = "puzzle"
            /\ Blanks(board) = puzzle.count
            /\ \A r \in Idx : \A c \in Idx :
                   board[r][c] \in {0, puzzle.solved[r][c]})

\* the custom puzzle with every cell removed was returned
C15_Witness ==
    /\ pc = "puzzle"
    /\ puzzle.mode = "custom"
    /\ puzzle.count = Size * Size
    /\ Blanks(board) = Size * Size

\* ------------------------------------------------------------------------
\* Properties of the Board
\* ------------------------------------------------------------------------
\* C12: for every supported size, the Board made from a grid has
\* currentBoard equal to that grid, and after any sequence of in-range
\* moves with values in 1 .. N currentBoard is the grid those assignments
\* describe.
C12_SnapshotRoundTrip ==
    (session.open /\ session.pure) => CurrentBoard(tree) = session.ideal

\* C16: move(row, col, value) with in-range indices appends exactly one node
\* as the last child of the current node, whose snapshot serializes the
\* current grid with only cell (row, col) replaced, and makes it current;
\* nothing else in the tree changes and no legality check stops it.
C16_MoveAppends ==
    [][LET l == session'.last
           cur == tree.currentNode
           new == Len(tree.nodes) + 1
       IN (/\ session.open
           /\ session'.calls = session.calls + 1
           /\ l.op = "move"
           /\ l.row \in 0..(session.size - 1)
           /\ l.col \in 0..(session.size - 1)) =>
              /\ session'.error = "none"
              /\ Len(tree'.nodes) = new
              /\ tree'.currentNode = new
              /\ tree'.root = tree.root
              /\ tree'.nodes[new].parent = cur
              /\ tree'.nodes[new].children = <<>>
              /\ tree'.nodes[cur].children = Append(tree.nodes[cur].children, new)
              /\ tree'.nodes[cur].value = tree.nodes[cur].value
              /\ \A m \in 1..Len(tree.nodes) :
                    m # cur => tree'.nodes[m] = tree.nodes[m]
              /\ tree'.nodes[new].value =
                    Serialize([CurrentBoard(tree) EXCEPT
                                  ![l.row + 1][l.col + 1] = l.value])]_vars

\* a second move was recorded that overwrites a given cell of the 4 x 4
\* puzzle with a value its column already holds
C16_Witness ==
    /\ session.open
    /\ session.size = 4
    /\ session.last = [op |-> "move", row |-> 0, col |-> 3, value |-> 1]
    /\ InitialBoard(session)[1][4] # 0
    /\ \E i \in 2..4 : CurrentBoard(tree)[i][4] = 1
    /\ CurrentBoard(tree)[1][4] = 1
    /\ Len(tree.nodes) = 3
    /\ tree.nodes[tree.currentNode].parent # tree.root

\* C17: move never raises, whatever the row, column and value, and records
\* a state.
C17_MoveNeverRaises ==
    (session.open /\ session.last.op = "move") =>
        /\ session.error = "none"
        /\ Len(tree.nodes) >= 2

\* C18: initialBoard is cell for cell the grid passed to the constructor,
\* whatever was called on the Board since and whatever the generator did to
\* its own grid.
C18_InitialBoardImmutable ==
    session.open => InitialBoard(session) = session.handed

\* the session has moved on and the generator has cut another cell out of
\* the array it handed over
C18_Witness ==
    /\ session.open
    /\ Len(tree.nodes) >= 2
    /\ session.arrays.puzzle # session.handed
    /\ InitialBoard(session) = session.handed

\* ------------------------------------------------------------------------
\* Properties of the play loop
\* ------------------------------------------------------------------------
\* C19: solvedAt stays null while the current grid has a blank cell, is
\* assigned at the first moment the current grid is filled and valid, and
\* is never assigned again in the session.
C19_SolvedAtOnce ==
    [][LET now == AsGrid(CurrentBoard(tree'))
       IN /\ ~IsBoardFilled(now) => session'.solvedAt = 0
          /\ Solved(now) => session'.solvedAt # 0
          /\ (session.solvedAt = 0 /\ session'.solvedAt # 0) => Solved(now)
          /\ session.solvedAt # 0 => session'.solvedAt = session.solvedAt]_vars

\* ------------------------------------------------------------------------
\* More properties of the history tree
\* ------------------------------------------------------------------------
\* C23: whatever node was current when the structure was produced, the tree
\* fromStructure returns is at its root, so current() right after the load
\* is the root's value, the snapshot the tree was created with.
C23_LoadAtRoot ==
    \A i \in 1..Len(trace) :
        trace[i].op = "fromStructure" =>
            /\ trace[i].to.id = tree.nodes[tree.root]._id
            /\ trace[i].to.value = tree.nodes[tree.root].value
            /\ trace[i].to.id = 1
            /\ (i = Len(trace) => tree.currentNode = tree.root)

\* a structure taken two levels below the root of a branched tree was loaded
C23_Witness ==
    /\ trace # <<>>
    /\ Last(trace).op = "fromStructure"
    /\ Last(trace).from.id # tree.nodes[tree.root]._id
    /\ ParentId(tree, Last(trace).from.id) # tree.nodes[tree.root]._id
    /\ Len(tree.nodes[tree.root].children) >= 2
    /\ tree.currentNode = tree.root

\* t and u have the same nodes: ids, values, parents and children order
SameTopology(t, u) ==
    /\ IdsOf(t) = IdsOf(u)
    /\ t.nodes[t.root]._id = u.nodes[u.root]._id
    /\ \A id \in IdsOf(t) :
          /\ t.nodes[NodeById(t, id)].value = u.nodes[NodeById(u, id)].value
          /\ ParentId(t, id) = ParentId(u, id)
          /\ ChildIds(t, id) = ChildIds(u, id)

\* t and u moreover agree on every node's active index
SameNodes(t, u) ==
    /\ SameTopology(t, u)
    /\ \A id \in IdsOf(t) :
          t.nodes[NodeById(t, id)].activeIndex
              = u.nodes[NodeById(u, id)].activeIndex

\* C24 (as stated): two reachable states with the same nodes, ids, values
\* and topology but a different current node serialize to the same
\* structure (here: the two states of one step).
C24_SameTopologySameStructure ==
    [][(SameTopology(tree, tree')
        /\ Cur(tree)._id # Cur(tree')._id)
           => TreeStructure(tree') = TreeStructure(tree)]_vars

\* C24 (amended): the structure is a function of the nodes alone, active
\* indices included: two states whose nodes agree in id, value, topology and
\* active index serialize to the same structure wherever current is, and
\* moving current of a state to any other node leaves its structure as it
\* is. (The active indices that undo and redo write are part of the
\* structure, so states that differ in them serialize differently.)
C24_StructureIgnoresCurrent ==
    [][/\ SameNodes(tree, tree') => TreeStructure(tree') = TreeStructure(tree)
       /\ \A n \in 1..Len(tree'.nodes) :
             TreeStructure([tree' EXCEPT !.currentNode = n])
                 = TreeStructure(tree')]_vars

\* a load moved current from a node below the root to the root of a tree
\* with the same nodes, and left the structure as it was
C24_Witness ==
    /\ trace # <<>>
    /\ Last(trace).op = "fromStructure"
    /\ Last(trace).from.id # Last(trace).to.id
    /\ TreeStructure(tree) = saved
    /\ Len(tree.nodes) >= 3

\* the last trace position before j at which P holds (0: none)
LastBefore(j, P(_)) ==
    IF \E m \in 1..(j - 1) : P(m)
    THEN CHOOSE m \in 1..(j - 1) : P(m) /\ \A k \in (m + 1)..(j - 1) : ~P(k)
    ELSE 0

\* C25: whenever redo() succeeds, the child it makes current is the child
\* added last to the node redo started from, and it is the child of that
\* node that was current most recently.
C25_RedoTarget ==
    \A j \in 1..Len(trace) :
        (trace[j].op = "redo" /\ trace[j].ret) =>
            LET from == trace[j].from.id
                Added(m) == trace[m].op = "addChild" /\ trace[m].from.id = from
                Entered(m) == /\ trace[m].to.id # trace[m].from.id
                              /\ ParentId(tree, trace[m].to.id) = from
                added == LastBefore(j, Added)
                entered == LastBefore(j, Entered)
            IN /\ added > 0
               /\ entered > 0
               /\ trace[j].to.id = trace[added].to.id
               /\ trace[j].to.id = trace[entered].to.id

\* a redo succeeded from a node with two children and took the newer one
C25_Witness ==
    \E j \in 1..Len(trace) :
        /\ trace[j].op = "redo"
        /\ trace[j].ret
        /\ Len(ChildIds(tree, trace[j].from.id)) >= 2
        /\ trace[j].to.id = Last(ChildIds(tree, trace[j].from.id))

\* the node of t with identifier id, or one of its ancestors, is not the
\* last child of its parent
RECURSIVE LeftBranch(_, _)
LeftBranch(t, n) ==
    IF t.nodes[n].parent = Null THEN FALSE
    ELSE \/ Last(t.nodes[t.nodes[n].parent].children) # n
         \/ LeftBranch(t, t.nodes[n].parent)

\* C26: the current node and each of its ancestors is the last child of its
\* parent: a node that has a later-added sibling is never current again,
\* nor is any of its descendants.
C26_NoReentry == ~LeftBranch(tree, tree.currentNode)

\* current is below the root, in the newer branch of a node whose older
\* branch has descendants, after an undo and a redo
C26_Witness ==
    /\ tree.currentNode # tree.root
    /\ \E p \in 1..Len(tree.nodes) :
          /\ Len(tree.nodes[p].children) >= 2
          /\ tree.nodes[tree.nodes[p].children[1]].children # <<>>
          /\ Last(tree.nodes[p].children) = tree.currentNode
    /\ \E j \in 1..Len(trace) : trace[j].op = "redo" /\ trace[j].ret

\* C27: addChild(state) appends the new node at the last position of the
\* old current node's children, with value state, parent = old current, no
\* children and activeIndex -1; the old current node's activeIndex becomes
\* the index of the new child; current becomes the new node; no other
\* node changes.
C27_AddChildPost ==
    [][Called("addChild") =>
          LET cur == tree.currentNode
              new == tree'.currentNode
          IN /\ Len(tree'.nodes) = Len(tree.nodes) + 1
             /\ new \notin 1..Len(tree.nodes)
             /\ tree'.nodes[new].value = Last(trace').arg
             /\ tree'.nodes[new].parent = cur
             /\ tree'.nodes[new].children = <<>>
             /\ tree'.nodes[new].activeIndex = -1
             /\ tree'.nodes[cur].children = Append(tree.nodes[cur].children, new)
             /\ tree'.nodes[cur].activeIndex = Len(tree.nodes[cur].children)
             /\ tree'.nodes[cur].value = tree.nodes[cur].value
             /\ tree'.nodes[cur].parent = tree.nodes[cur].parent
             /\ tree'.nodes[cur]._id = tree.nodes[cur]._id
             /\ \A n \in 1..Len(tree.nodes) :
                   n # cur => tree'.nodes[n] = tree.nodes[n]
             /\ ret' = TRUE]_vars

\* a second child was added to a node whose active index had been reset by
\* an undo
C27_Witness ==
    /\ trace # <<>>
    /\ Last(trace).op = "addChild"
    /\ Len(trace) >= 3
    /\ trace[Len(trace) - 1].op = "undo"
    /\ trace[Len(trace) - 1].ret
    /\ Len(tree.nodes[Cur(tree).parent].children) = 2
    /\ tree.nodes[Cur(tree).parent].activeIndex = 1

\* C28: a successful undo() sets the activeIndex of the current node's
\* parent to -1 and makes that parent current; every other field of every
\* node, the activeIndex of the node undone from included, is unchanged,
\* and the call returns true.
C28_UndoFrame ==
    [][(Called("undo") /\ Cur(tree).parent # Null) =>
          LET parent == Cur(tree).parent
          IN /\ ret' = TRUE
             /\ tree'.currentNode = parent
             /\ tree'.root = tree.root
             /\ tree'.nodes[parent] = [tree.nodes[parent] EXCEPT !.activeIndex = -1]
             /\ Len(tree'.nodes) = Len(tree.nodes)
             /\ \A n \in 1..Len(tree.nodes) :
                   n # parent => tree'.nodes[n] = tree.nodes[n]]_vars

\* an undo succeeded from a node that has an active child of its own
C28_Witness ==
    /\ trace # <<>>
    /\ Last(trace).op = "undo"
    /\ Last(trace).ret
    /\ Cur(tree).activeIndex = -1
    /\ \E n \in 1..Len(tree.nodes) :
          /\ tree.nodes[n]._id = Last(trace).from.id
          /\ tree.nodes[n].activeIndex >= 0

\* ---------------------------------------------------------------------
\* More properties of the solver
\* ---------------------------------------------------------------------

\* the call of solve at the top of the stack has run out of candidates and
\* is about to return false
ReturnsFalse == pc = "loop" /\ Top.candidates = <<>>

\* solve has found the grid full: this call and every call on the stack
\* are about to return true
ReturnsTrue == pc = "call" /\ IsBoardFilled(board)

\* C29: the search is complete: a call of solve returns false only for a
\* grid that has no completion, and returns true only for a grid that has
\* one, whatever list of candidates the static getValidValues computed.
C29_SolveComplete ==
    /\ ReturnsFalse => ~Completable(Top.entry)
    /\ ReturnsTrue => \A k \in 1..Len(stack) : Completable(stack[k].entry)

\* the candidates computed on entry of the call in frame f held a value
\* that could not be placed in its cell
HadBadCandidate(f) ==
    \E i \in 1..Len(StaticGetValidValues(f.entry, f.row, f.col)) :
        ~IsValid(f.entry, f.row, f.col,
                 StaticGetValidValues(f.entry, f.row, f.col)[i])

\* solve is about to return true for a grid that has a completion, and one
\* of the calls on the stack was handed a candidate that could not be
\* placed
C29_Witness ==
    /\ ReturnsTrue
    /\ Len(stack) >= 2
    /\ Completable(stack[1].entry)
    /\ \E k \in 1..Len(stack) : HadBadCandidate(stack[k])

\* C30: when a call of solve returns false every cell holds the value it
\* had when the call was entered, and when it returns true every cell that
\* was not empty on entry is unchanged.
C30_FailureRestores ==
    /\ ReturnsFalse => board = Top.entry
    /\ ReturnsTrue =>
          \A k \in 1..Len(stack) : \A r \in Idx : \A c \in Idx :
              stack[k].entry[r][c] # 0 => board[r][c] = stack[k].entry[r][c]

\* a call that had at least one value to try for its cell, and so wrote
\* the cell, returns false with the grid it was entered with
C30_Witness ==
    /\ ReturnsFalse
    /\ \E v \in 1..Size : IsValid(Top.entry, Top.row, Top.col, v)
    /\ board = Top.entry

\* ---------------------------------------------------------------------
\* Properties of the parallel generation
\* ---------------------------------------------------------------------

\* C21: once the promise of generate() has resolved, no later message of
\* a worker changes the grid of the generator.
C21_NoLateChange ==
    [][pool.promise = "resolved" => board' = board]_vars

\* C22: with workers that run their handler to the end and a parent that
\* handles every message, a pending promise of generate() eventually
\* resolves or rejects.
C22_AlwaysSettles ==
    (pool.promise = "pending") ~> (pool.promise \in {"resolved", "rejected"})

\* the promise of generate() is resolved or rejected
Settled == pool.promise \in {"resolved", "rejected"}

\* C31: an error of a worker while the promise is pending rejects the
\* promise with that error; the step that settles the promise leaves every
\* worker of the pool killed; and a settled promise keeps its state and its
\* value whatever success or error comes later.
C31_SettledOnce ==
    [][/\ \A w \in DOMAIN pool.workers :
             (pool.promise = "pending" /\ ~pool.workers[w].error
                 /\ pool'.workers[w].error)
             => (pool'.promise = "rejected"
                    /\ pool'.value = [kind |-> "error", from |-> w])
       /\ (pool.promise = "pending" /\ pool'.promise # "pending")
             => \A w \in DOMAIN pool'.workers :
                   pool'.workers[w].phase = "killed"
       /\ Settled => (pool'.promise = pool.promise /\ pool'.value = pool.value)
      ]_vars

\* the promise was rejected with the error of a worker, and the success of
\* another worker has been handled since: the outcome is still the error
C31_Witness ==
    /\ pool.promise = "rejected"
    /\ pool.value.kind = "error"
    /\ board # EmptyBoard
    /\ \A w \in DOMAIN pool.workers : pool.workers[w].phase = "killed"

\* ---------------------------------------------------------------------
\* The cursor of the history tree
\* ---------------------------------------------------------------------

\* no tree has been rebuilt from a structure so far
NoLoad == \A i \in 1..Len(trace) : trace[i].op # "fromStructure"

\* node a is node n or lies on the way from n up to the root
RECURSIVE IsAncestorOrSelf(_, _, _)
IsAncestorOrSelf(t, a, n) ==
    IF n = a THEN TRUE
    ELSE IF t.nodes[n].parent = Null THEN FALSE
    ELSE IsAncestorOrSelf(t, a, t.nodes[n].parent)

StrictAncestor(t, a, n) == a # n /\ IsAncestorOrSelf(t, a, n)

\* C36: as long as the tree is only changed by addChild / undo / redo, a
\* node's activeIndex differs from -1 exactly when the node is a strict
\* ancestor of the current node, and it is then the index of the child
\* through which the current node is reached.
C36_ActiveIndexIsCursor ==
    NoLoad =>
        \A n \in 1..Len(tree.nodes) :
            LET node == tree.nodes[n]
            IN IF StrictAncestor(tree, n, tree.currentNode)
               THEN /\ node.activeIndex \in 0..(Len(node.children) - 1)
                    /\ IsAncestorOrSelf(tree, node.children[node.activeIndex + 1],
                                        tree.currentNode)
               ELSE node.activeIndex = -1

\* current lies two levels below the root, in a tree where a branch has
\* been left by undo and another node has two children
C36_Witness ==
    /\ NoLoad
    /\ Cur(tree).parent # Null
    /\ tree.nodes[Cur(tree).parent].parent # Null
    /\ \E n \in 1..Len(tree.nodes) :
          /\ ~IsAncestorOrSelf(tree, n, tree.currentNode)
          /\ Len(tree.nodes[n].children) > 0
    /\ \E n \in 1..Len(tree.nodes) :
          /\ StrictAncestor(tree, n, tree.currentNode)
          /\ Len(tree.nodes[n].children) >= 2

\* the two-stack history that has received the operations of the trace
Linear(k) ==
    StackAfter(IF trace = <<>> THEN Current(tree) ELSE trace[1].from.value,
               trace, k)

\* C37: as long as no tree is rebuilt from a structure, the tree-based
\* history and the two-stack history that receive the same addChild / undo /
\* redo calls show the same current value after the last call, and an undo
\* or redo returns true on the tree exactly when it moves the cursor of the
\* two-stack history.
C37_TreeLikeStacks ==
    (NoLoad /\ trace # <<>>) =>
        LET k == Len(trace)
            before == Linear(k - 1)
            after == Linear(k)
        IN /\ StackCurrent(after) = Current(tree)
           /\ StackCurrent(after) = trace[k].to.value
           /\ trace[k].op \in {"undo", "redo"} =>
                 (trace[k].ret <=> after.currentNode # before.currentNode)

\* a redo has just returned false on a node that has no child, in a tree
\* where the root has two children and a redo succeeded earlier: the redo
\* stack of the two-stack history is empty as well
C37_Witness ==
    /\ NoLoad
    /\ trace # <<>>
    /\ trace[Len(trace)].op = "redo"
    /\ ~trace[Len(trace)].ret
    /\ Linear(Len(trace)).redoStack = <<>>
    /\ Len(tree.nodes[tree.root].children) >= 2
    /\ \E i \in 1..Len(trace) : trace[i].op = "redo" /\ trace[i].ret

\* number of steps from node n up to the root
RECURSIVE Depth(_, _)
Depth(t, n) ==
    IF t.nodes[n].parent = Null THEN 0 ELSE 1 + Depth(t, t.nodes[n].parent)

\* the trace is: addChild / undo / redo calls, then one load at position i,
\* then redo calls only
ReplayFrom(i) ==
    /\ trace[i].op = "fromStructure"
    /\ \A j \in 1..(i - 1) : trace[j].op # "fromStructure"
    /\ \A k \in (i + 1)..Len(trace) : trace[k].op = "redo"

\* the nodes of the tree that carry the identifier the current node had
\* when the structure was saved at position i
SavedNodes(i) ==
    {n \in 1..Len(tree.nodes) : tree.nodes[n]._id = trace[i].from.id}

\* C38: when a tree built by addChild / undo / redo is saved while current
\* is a leaf and rebuilt by fromStructure, the redo calls that follow walk
\* down from the root along the path to the node that was current at save
\* time, one node per successful call, and a redo returns false exactly
\* when it is called on that node.
C38_ReplayEndsAtSaved ==
    \A i \in 1..Len(trace) :
        ReplayFrom(i) =>
            /\ SavedNodes(i) # {}
            /\ \A n \in SavedNodes(i) :
                  Len(tree.nodes[n].children) = 0 =>
                     /\ IsAncestorOrSelf(tree, tree.currentNode, n)
                     /\ Depth(tree, tree.currentNode) =
                           Cardinality({k \in (i + 1)..Len(trace) : trace[k].ret})
                     /\ \A k \in (i + 1)..Len(trace) :
                           trace[k].ret <=> trace[k].from.id # trace[i].from.id

\* a game with an abandoned branch was saved on a leaf and loaded; redo has
\* walked to the saved node and the next redo has returned false there
C38_Witness ==
    /\ Len(tree.nodes[tree.root].children) >= 2
    /\ Len(Cur(tree).children) = 0
    /\ \E i \in 1..Len(trace) :
          /\ ReplayFrom(i)
          /\ Cur(tree)._id = trace[i].from.id
          /\ i + 2 <= Len(trace)
          /\ trace[Len(trace) - 1].ret
          /\ ~trace[Len(trace)].ret

\* ---------------------------------------------------------------------
\* More properties of the play loop
\* ---------------------------------------------------------------------

\* the grid a snapshot of the history decodes to, as currentBoard decodes it
SnapshotGrid(value) == AsGrid([i \in 1..Len(value) |-> ParseRow(value[i])])

\* C32: every snapshot in the history of a session is free of duplicates
\* in its rows, columns and subgrids, so that a move the play command
\* accepted never repeats a value of the target cell's row, column or
\* subgrid, and a filled current board is a valid solution.
C32_HistoryLegal ==
    /\ \A n \in 1..Len(tree.nodes) :
          NoDuplicates(SnapshotGrid(tree.nodes[n].value))
    /\ BoardSolved(tree) => Solved(AsGrid(CurrentBoard(tree)))

\* the last command was a play command (its number is 1 .. N) aimed at a
\* given cell or at a cell outside the grid
AimedAtGivenOrOutside(s) ==
    /\ s.last.value # 0
    /\ \/ s.last.row \notin 0..(s.size - 1)
       \/ s.last.col \notin 0..(s.size - 1)
       \/ InitialBoard(s)[s.last.row + 1][s.last.col + 1] # 0

\* C33: every snapshot of the history holds the value of initialBoard at
\* each cell that is non-zero there, and a play command aimed at a given
\* cell or at a cell outside the grid is refused with a message and leaves
\* the history tree as it was.
C33_GivensNeverEdited ==
    [][/\ \A n \in 1..Len(tree'.nodes) : \A r \in Idx : \A c \in Idx :
             InitialBoard(session')[r + 1][c + 1] # 0 =>
                SnapshotGrid(tree'.nodes[n].value)[r][c] =
                   InitialBoard(session')[r + 1][c + 1]
       /\ (session'.calls = session.calls + 1 /\ AimedAtGivenOrOutside(session'))
             => (session'.last.op = "badAttempt" /\ tree' = tree)
      ]_vars

\* C35: the grid the viewer of a loaded game decodes from a snapshot is the
\* grid currentBoard decodes from the same snapshot.
C35_ViewerDecodesLikeBoard ==
    session.open =>
        (session.shownOf # <<>> =>
            session.shown =
                [i \in 1..Len(session.shownOf) |-> ParseRow(session.shownOf[i])])

\* ------------------------------------------------------------------------
\* Properties of newGame
\* ------------------------------------------------------------------------
\* the grid is grid `solved` with some of its cells set to 0
ZeroedFrom(rows, solved) ==
    \A r \in Idx : \A c \in Idx : rows[r + 1][c + 1] \in {0, solved[r][c]}

\* C34: a puzzle is only ever cut from a grid generate() returned true for,
\* which is complete and valid, and the grid handed to the Board of a game
\* is that grid with some cells set to 0; after a generate() that returned
\* false, newGame does nothing but start again with a new, empty generator
C34_SessionFromSolved ==
    /\ [](puzzle.mode # "none" =>
             /\ result = "true"
             /\ IsBoardFilled(puzzle.solved)
             /\ Solved(puzzle.solved))
    /\ [](session.open => ZeroedFrom(session.handed, puzzle.solved))
    /\ [][pc = "generated" /\ result = "false" =>
             /\ pc' = "new"
             /\ board' = EmptyBoard
             /\ puzzle' = puzzle
             /\ session' = session]_vars

\* a game opened by the second generator of the run, on a grid with a hole
C34_Witness ==
    /\ session.open
    /\ ctor.nth = 2
    /\ \E i \in 1..Size : \E j \in 1..Size : session.handed[i][j] = 0

====
